---- MODULE Spec2Model ----
(***************************************************************************)
(* Model of the Excel Viewer core: the zustand application store and the   *)
(* pure selector getFilteredData (lib/store), and type inference and value *)
(* normalisation of processData (lib/excel-parser).                        *)
(*                                                                         *)
(* JavaScript strings are sequences of one-character strings.  A cell      *)
(* value is a record [t, n, d, s, b]: t is the JavaScript type tag ("null", *)
(* "undef", "num", "str", "bool", "date"), n / 10^d the number (n carries  *)
(* no trailing zero when d > 0), s the characters, b the boolean; a Date   *)
(* has its time value in n and b = TRUE iff it is a valid date.  Unused    *)
(* fields hold 0, << >>, FALSE.                                            *)
(***************************************************************************)
EXTENDS Integers, Sequences, FiniteSets, TLC

VARIABLES
    data,          \* AppState.data (isNull = TRUE models null)
    tableState,    \* AppState.tableState
    isLoading,     \* AppState.isLoading
    error,         \* AppState.error ("" models null)
    isEditMode,    \* AppState.isEditMode
    editingCell,   \* AppState.editingCell (set = FALSE models null)
    lastAdded,     \* history: per column, the filter last passed to addFilter and
                   \* whether that call found a filter of the column in place
    result,        \* value last returned by getFilteredData / useFilteredData
    calls,         \* history: calls of getFilteredData on the current inputs
    acc,           \* history: rows of the pages fetched so far, in order
    parseInput,    \* ParseResult handed to processData
    schemaInput,   \* DataSchema handed to processData (isNull = TRUE models undefined)
    processed,     \* ProcessedData returned by processData
    column,        \* CellValue[] handed to inferColumnType
    inferred,      \* ColumnType returned by inferColumnType ("" before the call)
    file,          \* the File handed to processFile / parseFile
    isWorkerSupported, \* typeof Worker !== 'undefined' in the page that uploads
    upload,        \* position of FileUpload.processFile
    hook,          \* useExcelWorker.parseFile, per value of isWorkerSupported:
                   \* position, progress state, stages given to onProgress,
                   \* outcome of the promise
    worker,        \* the Web Worker: its state and the parse messages it has
                   \* received and not handled yet
    posted,        \* worker messages the hook's onmessage has not handled yet
    sent,          \* history: every message the worker posted, in order
    decoded,       \* history: decoders excel-parser parseFile invoked, in order
    beforeSet,     \* history: the view state a re-upload found when it called
                   \* setData (set = FALSE before any re-upload)
    clock,         \* the clock of the page, in milliseconds
    timeout,       \* debounce: the timeout variable of the closure and its timer
    requested,     \* history: the calls of the debounced function, in order
    invoked,       \* history: the invocations of the function debounce wraps
    clearedAt      \* history: where the upload stood when clearData last ran

storeVars == <<data, tableState, isLoading, error, isEditMode, editingCell, lastAdded>>
queryVars == <<result, calls, acc>>
parserVars == <<parseInput, schemaInput, processed, column, inferred>>
uploadVars == <<file, isWorkerSupported, upload, hook, worker, posted, sent, decoded,
               beforeSet>>
timerVars == <<clock, timeout, requested, invoked>>
vars == <<data, tableState, isLoading, error, isEditMode, editingCell, lastAdded,
          result, calls, acc, parseInput, schemaInput, processed, column, inferred,
          file, isWorkerSupported, beforeSet, upload, hook, worker, posted, sent, decoded,
          clock, timeout, requested, invoked, clearedAt>>

(***************************************************************************)
(* Bounds                                                                  *)
(***************************************************************************)
MaxStoreRows == 2
MaxQueryRows == 3
MaxFilters == 2
MaxCalls == 2
MaxSample == 4

(***************************************************************************)
(* Values and strings                                                      *)
(***************************************************************************)
Null == [t |-> "null", n |-> 0, d |-> 0, s |-> << >>, b |-> FALSE]
Undefined == [t |-> "undef", n |-> 0, d |-> 0, s |-> << >>, b |-> FALSE]
Num(k) == [t |-> "num", n |-> k, d |-> 0, s |-> << >>, b |-> FALSE]
Str(cs) == [t |-> "str", n |-> 0, d |-> 0, s |-> cs, b |-> FALSE]
Bool(x) == [t |-> "bool", n |-> 0, d |-> 0, s |-> << >>, b |-> x]
DateValue(time, valid) == [t |-> "date", n |-> time, d |-> 0, s |-> << >>, b |-> valid]

RECURSIVE Pow10(_)
Pow10(k) == IF k = 0 THEN 1 ELSE 10 * Pow10(k - 1)

RECURSIVE Decimal(_, _)
\* the number m / 10^k as a value, trailing zeros of the fraction dropped
Decimal(m, k) ==
    IF k > 0 /\ m % 10 = 0 THEN Decimal(m \div 10, k - 1)
    ELSE [t |-> "num", n |-> m, d |-> k, s |-> << >>, b |-> FALSE]

\* a.n / 10^a.d - b.n / 10^b.d, scaled by 10^(a.d + b.d): its sign is the difference's
NumDiff(a, b) == a.n * Pow10(b.d) - b.n * Pow10(a.d)

\* value == null  (true of null and undefined)
IsNullish(v) == v.t \in {"null", "undef"}

Range(f) == {f[i] : i \in DOMAIN f}

UpperChars == <<"A","B","C","D","E","F","G","H","I","J","K","L","M",
                "N","O","P","Q","R","S","T","U","V","W","X","Y","Z">>
LowerChars == <<"a","b","c","d","e","f","g","h","i","j","k","l","m",
                "n","o","p","q","r","s","t","u","v","w","x","y","z">>
DigitChars == <<"0","1","2","3","4","5","6","7","8","9">>

IsDigit(c) == c \in Range(DigitChars)
IsLetter(c) == c \in Range(UpperChars) \cup Range(LowerChars)
IsSpace(c) == c = " "

LowerChar(c) ==
    IF c \in Range(UpperChars)
    THEN LowerChars[CHOOSE i \in DOMAIN UpperChars : UpperChars[i] = c]
    ELSE c

\* String.prototype.toLowerCase
ToLowerCase(cs) == [i \in DOMAIN cs |-> LowerChar(cs[i])]

\* String.prototype.includes
Includes(hay, needle) ==
    \E i \in 0..(Len(hay) - Len(needle)) : SubSeq(hay, i + 1, i + Len(needle)) = needle

\* String.prototype.startsWith
StartsWith(hay, needle) ==
    Len(needle) <= Len(hay) /\ SubSeq(hay, 1, Len(needle)) = needle

\* String.prototype.endsWith
EndsWith(hay, needle) ==
    Len(needle) <= Len(hay) /\ SubSeq(hay, Len(hay) - Len(needle) + 1, Len(hay)) = needle

RECURSIVE NatToStr(_)
NatToStr(k) ==
    IF k < 10 THEN <<DigitChars[k + 1]>>
    ELSE NatToStr(k \div 10) \o <<DigitChars[(k % 10) + 1]>>

RECURSIVE ZeroPad(_, _)
ZeroPad(cs, width) == IF Len(cs) >= width THEN cs ELSE ZeroPad(<<"0">> \o cs, width)

\* Number.prototype.toString of the non-negative m / 10^k
DecimalToStr(m, k) ==
    IF k = 0 THEN NatToStr(m)
    ELSE NatToStr(m \div Pow10(k)) \o <<".">> \o ZeroPad(NatToStr(m % Pow10(k)), k)

\* String(value).  A valid Date prints as "D" and its time value, standing
\* for its toString() text (which holds letters, spaces and a colon).
JsString(v) ==
    CASE v.t = "str" -> v.s
      [] v.t = "num" -> IF v.n < 0 THEN <<"-">> \o DecimalToStr(-v.n, v.d)
                        ELSE DecimalToStr(v.n, v.d)
      [] v.t = "bool" -> IF v.b THEN <<"t","r","u","e">> ELSE <<"f","a","l","s","e">>
      [] v.t = "null" -> <<"n","u","l","l">>
      [] v.t = "date" -> IF v.b THEN <<"D", ":", " ">> \o NatToStr(v.n)
                         ELSE <<"I","n","v","a","l","i","d"," ","D","a","t","e">>
      [] OTHER -> <<"u","n","d","e","f","i","n","e","d">>

DigitVal(c) == (CHOOSE i \in DOMAIN DigitChars : DigitChars[i] = c) - 1

RECURSIVE DigitsToNat(_)
DigitsToNat(cs) ==
    IF cs = << >> THEN 0
    ELSE 10 * DigitsToNat(SubSeq(cs, 1, Len(cs) - 1)) + DigitVal(cs[Len(cs)])

RECURSIVE TrimLeft(_)
TrimLeft(cs) ==
    IF cs # << >> /\ IsSpace(cs[1]) THEN TrimLeft(Tail(cs)) ELSE cs

RECURSIVE TrimRight(_)
TrimRight(cs) ==
    IF cs # << >> /\ IsSpace(cs[Len(cs)]) THEN TrimRight(SubSeq(cs, 1, Len(cs) - 1)) ELSE cs

\* String.prototype.trim
Trim(cs) == TrimRight(TrimLeft(cs))

JsNumber_NullIsNaN(v) ==
    CASE v.t = "num" -> [nan |-> FALSE, n |-> v.n, d |-> v.d]
      [] v.t = "bool" -> [nan |-> FALSE, n |-> IF v.b THEN 1 ELSE 0, d |-> 0]
      [] v.t = "null" -> [nan |-> TRUE, n |-> 0, d |-> 0]
      [] v.t = "undef" -> [nan |-> TRUE, n |-> 0, d |-> 0]
      [] v.t = "date" -> [nan |-> ~v.b, n |-> IF v.b THEN v.n ELSE 0, d |-> 0]
      [] OTHER ->
           LET cs == Trim(v.s) IN
           IF \A i \in DOMAIN cs : IsDigit(cs[i])
           THEN [nan |-> FALSE, n |-> DigitsToNat(cs), d |-> 0]
           ELSE [nan |-> TRUE, n |-> 0, d |-> 0]

\* Number(value): [nan, n, d].  Strings are trimmed; the empty string is 0,
\* a string of decimal digits is its value, any other string is NaN (signs,
\* fractions and exponents do not occur in the strings compared by filters
\* here).  A Date gives its time value, NaN when invalid.
JsNumber(v) ==
    CASE v.t = "num" -> [nan |-> FALSE, n |-> v.n, d |-> v.d]
      [] v.t = "bool" -> [nan |-> FALSE, n |-> IF v.b THEN 1 ELSE 0, d |-> 0]
      [] v.t = "null" -> [nan |-> FALSE, n |-> 0, d |-> 0]
      [] v.t = "undef" -> [nan |-> TRUE, n |-> 0, d |-> 0]
      [] v.t = "date" -> [nan |-> ~v.b, n |-> IF v.b THEN v.n ELSE 0, d |-> 0]
      [] OTHER ->
           LET cs == Trim(v.s) IN
           IF \A i \in DOMAIN cs : IsDigit(cs[i])
           THEN [nan |-> FALSE, n |-> DigitsToNat(cs), d |-> 0]
           ELSE [nan |-> TRUE, n |-> 0, d |-> 0]

\* Primary collation weight of a character: space, punctuation, digits, letters
\* (letters without regard to case).
CollationOrder == <<" ", "-", ",", ".", "/", ":", "@", "(", ")", "%", "+", "$",
                    "0","1","2","3","4","5","6","7","8","9",
                    "a","b","c","d","e","f","g","h","i","j","k","l","m",
                    "n","o","p","q","r","s","t","u","v","w","x","y","z">>
PrimaryWeight(c) ==
    LET l == LowerChar(c) IN
    IF l \in Range(CollationOrder)
    THEN CHOOSE i \in DOMAIN CollationOrder : CollationOrder[i] = l
    ELSE Len(CollationOrder) + 1

RECURSIVE LexCompare(_, _)
\* lexicographic comparison of two sequences of integer weights
LexCompare(a, b) ==
    IF a = << >> /\ b = << >> THEN 0
    ELSE IF a = << >> THEN -1
    ELSE IF b = << >> THEN 1
    ELSE IF a[1] < b[1] THEN -1
    ELSE IF a[1] > b[1] THEN 1
    ELSE LexCompare(Tail(a), Tail(b))

\* tertiary weight: lower case before upper case
CaseWeight(c) == IF c \in Range(UpperChars) THEN 1 ELSE 0

\* String.prototype.localeCompare: primary weights decide; case breaks ties
LocaleCompare(a, b) ==
    LET p == LexCompare([i \in DOMAIN a |-> PrimaryWeight(a[i])],
                        [i \in DOMAIN b |-> PrimaryWeight(b[i])])
    IN IF p # 0 THEN p
       ELSE LexCompare([i \in DOMAIN a |-> CaseWeight(a[i])],
                       [i \in DOMAIN b |-> CaseWeight(b[i])])

(***************************************************************************)
(* getFilteredData (lib/store)                                             *)
(*                                                                         *)
(* A row is [id, rowIndex, cells]; cells maps every column key to a value, *)
(* Undefined standing for a key the row object does not have.  A filter is *)
(* [column, operator, value, isArray, list]: list holds the elements when  *)
(* the filter value is an array.  A sort is [active, column, direction];   *)
(* active = FALSE models tableState.sort being undefined.                  *)
(***************************************************************************)
Keys == {"name", "value"}

NoSort == [active |-> FALSE, column |-> "", direction |-> "asc"]
Sort(c, d) == [active |-> TRUE, column |-> c, direction |-> d]

Filter(c, op, v) == [column |-> c, operator |-> op, value |-> v, isArray |-> FALSE, list |-> << >>]
FilterIn(c, op, vs) == [column |-> c, operator |-> op, value |-> Null, isArray |-> TRUE, list |-> vs]

RECURSIVE JoinComma(_)
\* Array.prototype.join(','): null and undefined elements become ''
JoinComma(vs) ==
    IF vs = << >> THEN << >>
    ELSE LET h == IF IsNullish(vs[1]) THEN << >> ELSE JsString(vs[1])
         IN IF Len(vs) = 1 THEN h ELSE h \o <<",">> \o JoinComma(Tail(vs))

\* the filter value as a JavaScript value after String() where it is an array
FilterScalar(f) == IF f.isArray THEN Str(JoinComma(f.list)) ELSE f.value

\* the callback of filteredRows.filter in the filter loop
FilterKeeps_DefaultDrops(row, f) ==
    LET v == row.cells[f.column]
        fv == FilterScalar(f)
        nv == JsNumber(v)
        nf == JsNumber(fv)
        sv == ToLowerCase(JsString(v))
        sf == ToLowerCase(JsString(fv))
    IN CASE f.operator = "eq" -> ~f.isArray /\ v = f.value
         [] f.operator = "neq" -> f.isArray \/ v # f.value
         [] f.operator = "gt" -> ~nv.nan /\ ~nf.nan /\ NumDiff(nv, nf) > 0
         [] f.operator = "gte" -> ~nv.nan /\ ~nf.nan /\ NumDiff(nv, nf) >= 0
         [] f.operator = "lt" -> ~nv.nan /\ ~nf.nan /\ NumDiff(nv, nf) < 0
         [] f.operator = "lte" -> ~nv.nan /\ ~nf.nan /\ NumDiff(nv, nf) <= 0
         [] f.operator = "contains" -> Includes(sv, sf)
         [] f.operator = "startsWith" -> StartsWith(sv, sf)
         [] f.operator = "endsWith" -> EndsWith(sv, sf)
         [] f.operator = "in" -> f.isArray /\ v \in Range(f.list)
         [] OTHER -> FALSE

FilterKeeps(row, f) ==
    LET v == row.cells[f.column]
        fv == FilterScalar(f)
        nv == JsNumber(v)
        nf == JsNumber(fv)
        sv == ToLowerCase(JsString(v))
        sf == ToLowerCase(JsString(fv))
    IN CASE f.operator = "eq" -> ~f.isArray /\ v = f.value
         [] f.operator = "neq" -> f.isArray \/ v # f.value
         [] f.operator = "gt" -> ~nv.nan /\ ~nf.nan /\ NumDiff(nv, nf) > 0
         [] f.operator = "gte" -> ~nv.nan /\ ~nf.nan /\ NumDiff(nv, nf) >= 0
         [] f.operator = "lt" -> ~nv.nan /\ ~nf.nan /\ NumDiff(nv, nf) < 0
         [] f.operator = "lte" -> ~nv.nan /\ ~nf.nan /\ NumDiff(nv, nf) <= 0
         [] f.operator = "contains" -> Includes(sv, sf)
         [] f.operator = "startsWith" -> StartsWith(sv, sf)
         [] f.operator = "endsWith" -> EndsWith(sv, sf)
         [] f.operator = "in" -> f.isArray /\ v \in Range(f.list)
         [] OTHER -> TRUE

\* the keys of the columns flagged searchable, in schema order
SearchableColumns_AllColumns(schema) ==
    [i \in DOMAIN schema.columns |-> schema.columns[i].key]

SearchableColumns(schema) ==
    LET cols == SelectSeq(schema.columns, LAMBDA c : c.searchable)
    IN [i \in DOMAIN cols |-> cols[i].key]

\* the callback of filteredRows.filter in the search step
SearchKeeps_NoNullCheck(row, searchLower, searchableColumns) ==
    \E i \in DOMAIN searchableColumns :
        Includes(ToLowerCase(JsString(row.cells[searchableColumns[i]])), searchLower)

SearchKeeps(row, searchLower, searchableColumns) ==
    \E i \in DOMAIN searchableColumns :
        LET value == row.cells[searchableColumns[i]]
        IN ~IsNullish(value) /\ Includes(ToLowerCase(JsString(value)), searchLower)

RECURSIVE ApplyFilters(_, _)
\* for (const filter of tableState.filters) filteredRows = filteredRows.filter(...)
ApplyFilters(rows, filters) ==
    IF filters = << >> THEN rows
    ELSE ApplyFilters(SelectSeq(rows, LAMBDA r : FilterKeeps(r, filters[1])), Tail(filters))

\* the comparator handed to filteredRows.sort
SortCompare_NullFirstOnDesc(a, b, sort) ==
    LET aVal == a.cells[sort.column]
        bVal == b.cells[sort.column]
        comparison ==
            IF IsNullish(aVal) THEN 1
            ELSE IF IsNullish(bVal) THEN -1
            ELSE IF aVal.t = "num" /\ bVal.t = "num" THEN NumDiff(aVal, bVal)
            ELSE LocaleCompare(JsString(aVal), JsString(bVal))
    IN IF sort.direction = "desc" THEN -comparison ELSE comparison

SortCompare(a, b, sort) ==
    LET aVal == a.cells[sort.column]
        bVal == b.cells[sort.column]
    IN IF IsNullish(aVal) THEN 1
       ELSE IF IsNullish(bVal) THEN -1
       ELSE LET comparison ==
                    IF aVal.t = "num" /\ bVal.t = "num" THEN NumDiff(aVal, bVal)
                    ELSE LocaleCompare(JsString(aVal), JsString(bVal))
            IN IF sort.direction = "desc" THEN -comparison ELSE comparison

RECURSIVE BinarySearch(_, _, _, _, _)
\* where the pivot goes in the sorted prefix arr[left+1 .. right] (0-based
\* bounds left, right as in the engine's binary insertion)
BinarySearch(arr, pivot, left, right, sort) ==
    IF left >= right THEN left
    ELSE LET mid == left + ((right - left) \div 2)
         IN IF SortCompare(pivot, arr[mid + 1], sort) < 0
            THEN BinarySearch(arr, pivot, left, mid, sort)
            ELSE BinarySearch(arr, pivot, mid + 1, right, sort)

RECURSIVE InsertionSort(_, _, _)
\* Array.prototype.sort(compareFn) as the engine runs it on a short array: a
\* stable binary insertion sort that tests the comparator's result for < 0
InsertionSort(arr, start, sort) ==
    IF start > Len(arr) THEN arr
    ELSE LET pivot == arr[start]
             pos == BinarySearch(arr, pivot, 0, start - 1, sort)
             moved == SubSeq(arr, 1, pos) \o <<pivot>> \o SubSeq(arr, pos + 1, start - 1)
                          \o SubSeq(arr, start + 1, Len(arr))
         IN InsertionSort(moved, start + 1, sort)

ArraySort(arr, sort) == InsertionSort(arr, 2, sort)

\* Array.prototype.slice(start, end)
JsSlice(arr, start, end) ==
    LET len == Len(arr)
        k == IF start < 0 THEN (IF len + start < 0 THEN 0 ELSE len + start)
             ELSE (IF start > len THEN len ELSE start)
        e == IF end < 0 THEN (IF len + end < 0 THEN 0 ELSE len + end)
             ELSE (IF end > len THEN len ELSE end)
    IN SubSeq(arr, k + 1, e)

\* let filteredRows = [...data.rows]: a fresh array (shared = FALSE), so that
\* the in-place sort below cannot reach data.rows
SpreadCopy_Alias(rows) == [arr |-> rows, shared |-> TRUE]

SpreadCopy(rows) == [arr |-> rows, shared |-> FALSE]

\* filteredRows after search and filters, before the sort
FilteredRows(d, ts) ==
    LET copy == SpreadCopy(d.rows)
        searchLower == ToLowerCase(ts.search)
        searchableColumns == SearchableColumns(d.schema)
        searched ==
            IF ts.search # << >>
            THEN [arr |-> SelectSeq(copy.arr,
                                    LAMBDA r : SearchKeeps(r, searchLower, searchableColumns)),
                  shared |-> FALSE]
            ELSE copy
    IN IF ts.filters # << >>
       THEN [arr |-> ApplyFilters(searched.arr, ts.filters), shared |-> FALSE]
       ELSE searched

\* filteredRows after the sort
SortedRows(d, ts) ==
    LET f == FilteredRows(d, ts)
    IN IF ts.sort.active THEN [arr |-> ArraySort(f.arr, ts.sort), shared |-> f.shared]
       ELSE f

\* filteredRows.slice(start, start + pageSize)
Paginate_OffByOne(rows, pagination) ==
    LET start == pagination.page * pagination.pageSize
    IN JsSlice(rows, start, start + pagination.pageSize)

Paginate(rows, pagination) ==
    LET start == (pagination.page - 1) * pagination.pageSize
    IN JsSlice(rows, start, start + pagination.pageSize)

\* totalFiltered = filteredRows.length, taken before the slice
TotalFiltered_AfterSlice(rows, pagination) == Len(Paginate(rows, pagination))

TotalFiltered(rows, pagination) == Len(rows)

\* getFilteredData(data, tableState); dataRows is data.rows as the call leaves it
getFilteredData(d, ts) ==
    IF d.isNull THEN [rows |-> << >>, totalFiltered |-> 0, dataRows |-> d.rows]
    ELSE LET sorted == SortedRows(d, ts)
         IN [rows |-> Paginate(sorted.arr, ts.pagination),
             totalFiltered |-> TotalFiltered(sorted.arr, ts.pagination),
             dataRows |-> IF sorted.shared THEN sorted.arr ELSE d.rows]

(***************************************************************************)
(* The application store (useAppStore)                                     *)
(***************************************************************************)
DefaultPageSize == 25
MaxPage == 2

NoFilter == Filter("", "", Null)
NoneAdded == [k \in Keys |-> [filter |-> NoFilter, replaced |-> FALSE]]
NoCell == [set |-> FALSE, rowId |-> 0, columnKey |-> ""]

\* Math.ceil(a / b) for a >= 0, b > 0
Ceil(a, b) == (a + b - 1) \div b

\* schema === undefined
NoSchema == [isNull |-> TRUE, columns |-> << >>, defaultSort |-> NoSort]

\* ProcessedData.metadata: totalRows and warnings (processedAt and
\* sourceFileName are not modelled)
Metadata(totalRows, warnings) == [totalRows |-> totalRows, warnings |-> warnings]

NullData == [isNull |-> TRUE,
             schema |-> [columns |-> << >>, defaultSort |-> NoSort],
             rows |-> << >>,
             metadata |-> Metadata(0, << >>)]

defaultTableState ==
    [sort |-> NoSort,
     filters |-> << >>,
     search |-> << >>,
     pagination |-> [page |-> 1, pageSize |-> DefaultPageSize, totalPages |-> 1, totalItems |-> 0],
     visibleColumns |-> << >>,
     groupBy |-> ""]

\* data?.schema.columns.filter(c => !c.hidden).map(c => c.key) || []
VisibleKeys(d) ==
    IF d.isNull THEN << >>
    ELSE LET cols == SelectSeq(d.schema.columns, LAMBDA c : ~c.hidden)
         IN [i \in DOMAIN cols |-> cols[i].key]

\* data?.rows.length || 0
RowCount(d) == IF d.isNull THEN 0 ELSE Len(d.rows)

Column(k, ty, se) == [key |-> k, type |-> ty, searchable |-> se, hidden |-> FALSE]
Row(i, nm, vl) == [id |-> i, rowIndex |-> i - 1, cells |-> [name |-> nm, value |-> vl]]

\* all row sequences of length 0..n with the <<name, value>> cells of each row
\* drawn from the given set; the row at position i has id i and rowIndex i - 1
RowSeqsOf(cells, n) ==
    UNION {{[i \in 1..k |-> Row(i, c[i][1], c[i][2])] : c \in [1..k -> cells]} : k \in 0..n}

\* the same, with every pairing of a name and a value
RowSeqs(names, values, n) == RowSeqsOf(names \X values, n)

Dataset(cols, rows) ==
    [isNull |-> FALSE, schema |-> [columns |-> cols, defaultSort |-> NoSort], rows |-> rows,
     metadata |-> Metadata(Len(rows), << >>)]

StoreSchemaColumns == <<Column("name", "string", TRUE), Column("value", "number", FALSE)>>
StoreNames == {Null, Str(<<"A","l">>)}
StoreValues == {Null, Num(1)}
\* the rows of a loaded file are blank or filled; updateCell reaches the mixed ones
StoreCells == {<<Null, Null>>, <<Str(<<"A","l">>), Num(1)>>}
StoreDatasets == {Dataset(StoreSchemaColumns, r) : r \in RowSeqsOf(StoreCells, MaxStoreRows)}
StoreFilters == {Filter("name", "contains", Str(<<"l">>)),
                 Filter("value", "eq", Num(1)),
                 Filter("value", "gt", Num(0))}
StoreSearches == {<< >>, <<"l">>}
StoreSorts == {NoSort, Sort("name", "desc")}
StorePageSizes == {1, DefaultPageSize}

InitStore ==
    /\ data = NullData
    /\ tableState = defaultTableState
    /\ isLoading = FALSE
    /\ error = ""
    /\ isEditMode = FALSE
    /\ editingCell = NoCell
    /\ lastAdded = NoneAdded

\* ParseResult / ParseResultPayload with nothing in it
EmptyResult == [headers |-> << >>, data |-> << >>, rawData |-> << >>, errors |-> << >>]

\* what Papa.parse does: a call of complete(result) with result.meta.fields
\* (hasFields = FALSE: undefined), result.data and the messages of
\* result.errors, or (failed) a call of error(error), which Papa makes when
\* it cannot read its input
NoPapa ==
    [failed |-> FALSE, message |-> "", hasFields |-> FALSE, fields |-> << >>,
     data |-> << >>, errors |-> << >>]

\* a File: name, MIME type, size in bytes, unreadable (reading its bytes
\* fails), and what the libraries make of its bytes: throws (XLSX.read
\* throws), raw (the rows sheet_to_json gives for the first worksheet), papa
\* (what Papa.parse makes of the text)
NoFile ==
    [name |-> << >>, type |-> << >>, size |-> 0, unreadable |-> FALSE,
     throws |-> FALSE, raw |-> << >>, papa |-> NoPapa]

\* progress === null
NoProgress == [stage |-> "", progress |-> 0]

\* the state of useExcelWorker before parseFile is called
IdleHook ==
    [pc |-> "idle", isLoading |-> FALSE, error |-> "", progress |-> NoProgress,
     delivered |-> << >>, outcome |-> "pending", result |-> EmptyResult, message |-> "",
     terminated |-> FALSE]

\* no Worker constructed yet
NoWorker == [state |-> "none", inbox |-> << >>, ref |-> FALSE]

\* let timeout = null
NoTimeout == [set |-> FALSE, pending |-> FALSE, due |-> 0, args |-> ""]

\* the page has just loaded: nothing has called the debounced function
InitTimers ==
    /\ clock = 0
    /\ timeout = NoTimeout
    /\ requested = << >>
    /\ invoked = << >>

\* no re-upload yet
NoSnapshot ==
    [set |-> FALSE, tableState |-> defaultTableState, error |-> "", isEditMode |-> FALSE,
     editingCell |-> NoCell]

InitUploadIdle ==
    /\ file = NoFile
    /\ isWorkerSupported = TRUE
    /\ upload = [pc |-> "idle", status |-> "idle"]
    /\ hook = [w \in BOOLEAN |-> IdleHook]
    /\ worker = NoWorker
    /\ posted = << >>
    /\ sent = << >>
    /\ decoded = << >>
    /\ beforeSet = NoSnapshot
    /\ InitTimers
    /\ clearedAt = "none"

InitIdle ==
    /\ InitUploadIdle
    /\ result = [rows |-> << >>, totalFiltered |-> 0]
    /\ calls = 0
    /\ acc = << >>
    /\ parseInput = [headers |-> << >>, data |-> << >>, errors |-> << >>]
    /\ schemaInput = NoSchema
    /\ processed = NullData
    /\ column = << >>
    /\ inferred = ""

Init == InitStore /\ InitIdle

setDataFields_KeepsFilters(d) ==
    /\ data' = d
    /\ error' = ""
    /\ isEditMode' = FALSE
    /\ editingCell' = NoCell
    /\ tableState' =
         [defaultTableState EXCEPT
            !.filters = tableState.filters,
            !.visibleColumns = VisibleKeys(d),
            !.pagination = [defaultTableState.pagination EXCEPT
                              !.totalItems = RowCount(d),
                              !.totalPages = Ceil(RowCount(d), defaultTableState.pagination.pageSize)],
            !.sort = IF d.isNull THEN NoSort ELSE d.schema.defaultSort]
    /\ lastAdded' = NoneAdded

\* set({ data, error: null, isEditMode: false, editingCell: null, tableState })
setDataFields(d) ==
    /\ data' = d
    /\ error' = ""
    /\ isEditMode' = FALSE
    /\ editingCell' = NoCell
    /\ tableState' =
         [defaultTableState EXCEPT
            !.visibleColumns = VisibleKeys(d),
            !.pagination = [defaultTableState.pagination EXCEPT
                              !.totalItems = RowCount(d),
                              !.totalPages = Ceil(RowCount(d), defaultTableState.pagination.pageSize)],
            !.sort = IF d.isNull THEN NoSort ELSE d.schema.defaultSort]
    /\ lastAdded' = NoneAdded

setData(d) == setDataFields(d) /\ UNCHANGED isLoading

SetData == \E d \in StoreDatasets : setData(d) /\ UNCHANGED <<queryVars, parserVars, uploadVars, timerVars, clearedAt>>

\* the fields clearData sets
clearDataFields ==
    /\ data' = NullData
    /\ error' = ""
    /\ isEditMode' = FALSE
    /\ editingCell' = NoCell
    /\ tableState' = defaultTableState
    /\ lastAdded' = NoneAdded

clearData ==
    /\ clearDataFields
    /\ UNCHANGED <<isLoading, queryVars, parserVars, uploadVars, timerVars, clearedAt>>

\* { ...row, [columnKey]: value }: _id and _rowIndex are properties of the
\* row like its cells, and a columnKey the row does not have is added to it
UpdatedRow(row, columnKey, value) ==
    IF columnKey = "_id" THEN [row EXCEPT !.id = value]
    ELSE IF columnKey = "_rowIndex" THEN [row EXCEPT !.rowIndex = value]
    ELSE [row EXCEPT !.cells = [k \in DOMAIN row.cells \cup {columnKey} |->
                                   IF k = columnKey THEN value ELSE row.cells[k]]]

UpdatedRows_EveryRow(rows, rowId, columnKey, value) ==
    [i \in DOMAIN rows |-> UpdatedRow(rows[i], columnKey, value)]

\* state.data.rows.map(row => row._id === rowId ? { ...row, [columnKey]: value } : row)
UpdatedRows(rows, rowId, columnKey, value) ==
    [i \in DOMAIN rows |->
        IF rows[i].id = rowId THEN UpdatedRow(rows[i], columnKey, value) ELSE rows[i]]

updateCell(rowId, columnKey, value) ==
    /\ IF data.isNull
       THEN UNCHANGED <<data, editingCell>>
       ELSE /\ data' = [data EXCEPT !.rows = UpdatedRows(data.rows, rowId, columnKey, value)]
            /\ editingCell' = NoCell
    /\ UNCHANGED <<tableState, isLoading, error, isEditMode, lastAdded, queryVars, parserVars, uploadVars, timerVars, clearedAt>>

UpdateCell ==
    \E rowId \in 1..(MaxStoreRows + 1), columnKey \in Keys :
        \E value \in (IF columnKey = "name" THEN StoreNames ELSE StoreValues) :
            updateCell(rowId, columnKey, value)

setSort(sort) ==
    /\ tableState' = [tableState EXCEPT !.sort = sort]
    /\ UNCHANGED <<data, isLoading, error, isEditMode, editingCell, lastAdded, queryVars, parserVars, uploadVars, timerVars, clearedAt>>

SetSort == \E sort \in StoreSorts : setSort(sort)

\* [...filters.filter(f => f.column !== filter.column), filter]
AddedFilters_Append(filters, filter) == Append(filters, filter)

AddedFilters(filters, filter) ==
    Append(SelectSeq(filters, LAMBDA f : f.column # filter.column), filter)

addFilter_KeepsPage(filter) ==
    /\ tableState' = [tableState EXCEPT
                        !.filters = AddedFilters(tableState.filters, filter)]
    /\ lastAdded' = [lastAdded EXCEPT ![filter.column] =
                        [filter |-> filter,
                         replaced |-> \E i \in DOMAIN tableState.filters :
                                         tableState.filters[i].column = filter.column]]
    /\ UNCHANGED <<data, isLoading, error, isEditMode, editingCell, queryVars, parserVars, uploadVars, timerVars, clearedAt>>

addFilter(filter) ==
    /\ tableState' = [tableState EXCEPT
                        !.filters = AddedFilters(tableState.filters, filter),
                        !.pagination.page = 1]
    /\ lastAdded' = [lastAdded EXCEPT ![filter.column] =
                        [filter |-> filter,
                         replaced |-> \E i \in DOMAIN tableState.filters :
                                         tableState.filters[i].column = filter.column]]
    /\ UNCHANGED <<data, isLoading, error, isEditMode, editingCell, queryVars, parserVars, uploadVars, timerVars, clearedAt>>

AddFilter ==
    \E filter \in StoreFilters :
        /\ Len(tableState.filters) < MaxFilters \/ \E i \in DOMAIN tableState.filters :
                                                       tableState.filters[i].column = filter.column
        /\ addFilter(filter)

removeFilter(col) ==
    /\ tableState' = [tableState EXCEPT
                        !.filters = SelectSeq(tableState.filters, LAMBDA f : f.column # col)]
    /\ lastAdded' = [lastAdded EXCEPT ![col] = [filter |-> NoFilter, replaced |-> FALSE]]
    /\ UNCHANGED <<data, isLoading, error, isEditMode, editingCell, queryVars, parserVars, uploadVars, timerVars, clearedAt>>

RemoveFilter == \E col \in Keys : removeFilter(col)

clearFilters ==
    /\ tableState' = [tableState EXCEPT !.filters = << >>, !.search = << >>]
    /\ lastAdded' = NoneAdded
    /\ UNCHANGED <<data, isLoading, error, isEditMode, editingCell, queryVars, parserVars, uploadVars, timerVars, clearedAt>>

setSearch(search) ==
    /\ tableState' = [tableState EXCEPT !.search = search, !.pagination.page = 1]
    /\ UNCHANGED <<data, isLoading, error, isEditMode, editingCell, lastAdded, queryVars, parserVars, uploadVars, timerVars, clearedAt>>

SetSearch == \E search \in StoreSearches : setSearch(search)

setPage(page) ==
    /\ tableState' = [tableState EXCEPT !.pagination.page = page]
    /\ UNCHANGED <<data, isLoading, error, isEditMode, editingCell, lastAdded, queryVars, parserVars, uploadVars, timerVars, clearedAt>>

SetPage == \E page \in 1..MaxPage : setPage(page)

setPageSize(pageSize) ==
    /\ tableState' = [tableState EXCEPT
                        !.pagination.pageSize = pageSize,
                        !.pagination.page = 1,
                        !.pagination.totalPages = Ceil(RowCount(data), pageSize)]
    /\ UNCHANGED <<data, isLoading, error, isEditMode, editingCell, lastAdded, queryVars, parserVars, uploadVars, timerVars, clearedAt>>

SetPageSize == \E pageSize \in StorePageSizes : setPageSize(pageSize)

resetTableState ==
    /\ tableState' = [defaultTableState EXCEPT !.visibleColumns = VisibleKeys(data)]
    /\ lastAdded' = NoneAdded
    /\ UNCHANGED <<data, isLoading, error, isEditMode, editingCell, queryVars, parserVars, uploadVars, timerVars, clearedAt>>

\* Pagination.handlePageChange(newPage): totalPages is that of the filtered rows
handlePageChange(newPage) ==
    LET totalFiltered == getFilteredData(data, tableState).totalFiltered
        totalPages == Ceil(totalFiltered, tableState.pagination.pageSize)
    IN /\ totalFiltered # 0
       /\ newPage >= 1 /\ newPage <= totalPages
       /\ setPage(newPage)

HandlePageChange == \E newPage \in 0..(MaxPage + 1) : handlePageChange(newPage)

\* HomePage keyboard shortcuts
goToFirstPage == ~data.isNull /\ setPage(1)

goToLastPage == ~data.isNull /\ setPage(tableState.pagination.totalPages)

goToPrevPage ==
    /\ ~data.isNull /\ tableState.pagination.page > 1
    /\ setPage(tableState.pagination.page - 1)

goToNextPage ==
    /\ ~data.isNull /\ tableState.pagination.page < tableState.pagination.totalPages
    /\ setPage(tableState.pagination.page + 1)

Next ==
    \/ SetData
    \/ clearData
    \/ UpdateCell
    \/ SetSort
    \/ AddFilter
    \/ RemoveFilter
    \/ clearFilters
    \/ SetSearch
    \/ SetPage
    \/ SetPageSize
    \/ resetTableState
    \/ HandlePageChange
    \/ goToFirstPage
    \/ goToLastPage
    \/ goToPrevPage
    \/ goToNextPage

Spec == Init /\ [][Next]_vars

(***************************************************************************)
(* Calls of getFilteredData on drawn inputs                                *)
(***************************************************************************)
QueryState(search, filters, sort, page, pageSize) ==
    [defaultTableState EXCEPT
        !.search = search, !.filters = filters, !.sort = sort,
        !.pagination.page = page, !.pagination.pageSize = pageSize,
        !.visibleColumns = <<"name", "value">>]

RECURSIVE FilterLists(_, _)
\* all lists of at most n filters of the set fs
FilterLists(fs, n) ==
    IF n = 0 THEN {<< >>}
    ELSE LET shorter == FilterLists(fs, n - 1)
         IN shorter \cup {Append(l, f) : l \in shorter, f \in fs}

InitQuery(datasets, states) ==
    /\ data \in datasets
    /\ tableState \in states
    /\ isLoading = FALSE
    /\ error = ""
    /\ isEditMode = FALSE
    /\ editingCell = NoCell
    /\ lastAdded = NoneAdded
    /\ InitIdle

\* one call getFilteredData(data, tableState)
QueryCall ==
    /\ calls < MaxCalls
    /\ LET r == getFilteredData(data, tableState)
       IN /\ result' = [rows |-> r.rows, totalFiltered |-> r.totalFiltered]
          /\ data' = [data EXCEPT !.rows = r.dataRows]
          /\ acc' = IF calls = 0 THEN acc \o r.rows ELSE acc
    /\ calls' = calls + 1
    /\ UNCHANGED <<tableState, isLoading, error, isEditMode, editingCell, lastAdded, parserVars, uploadVars, timerVars, clearedAt>>

\* the caller moves to the next page while the page fetched is not the last
TurnPage ==
    /\ calls >= 1
    /\ tableState.pagination.page * tableState.pagination.pageSize < result.totalFiltered
    /\ tableState' = [tableState EXCEPT !.pagination.page = @ + 1]
    /\ calls' = 0
    /\ UNCHANGED <<data, isLoading, error, isEditMode, editingCell, lastAdded,
                   result, acc, parserVars, uploadVars, timerVars, clearedAt>>

QuerySchemas == {<<Column("name", "string", a), Column("value", "number", b)>> : a, b \in BOOLEAN}
SearchableName == <<Column("name", "string", TRUE), Column("value", "number", FALSE)>>

\* sort: null, undefined, numbers whose string order differs, mixed-case strings
SortNames == {Null, Str(<<"a">>), Str(<<"B">>)}
SortValues == {Undefined, Num(2), Num(10)}
SortDatasets == {Dataset(SearchableName, r) : r \in RowSeqs(SortNames, SortValues, MaxQueryRows)}
SortStates == {QueryState(<< >>, << >>, s, 1, DefaultPageSize) :
                 s \in {NoSort} \cup {Sort(c, d) : c \in Keys, d \in {"asc", "desc"}}}
InitSort == InitQuery(SortDatasets, SortStates)
SpecSort == InitSort /\ [][QueryCall]_vars

\* pagination: every page size up to one more than the rows, from page 1
MaxPageRows == 3
PageNames == {Null, Str(<<"A","l">>)}
PageValues == {Null, Num(1), Num(2)}
PageDatasets == {Dataset(SearchableName, r) : r \in RowSeqs(PageNames, PageValues, MaxPageRows)}
PageStates == {QueryState(q, f, s, 1, ps) :
                 q \in {<< >>, <<"l">>},
                 f \in {<< >>, <<Filter("value", "gte", Num(1))>>},
                 s \in {NoSort, Sort("value", "desc")},
                 ps \in 1..(MaxPageRows + 1)}
InitPage == InitQuery(PageDatasets, PageStates)
NextPage == QueryCall \/ TurnPage
SpecPage == InitPage /\ [][NextPage]_vars

\* totalFiltered: any page, also past the last one, and data = null
TotalStates == {QueryState(q, f, s, p, ps) :
                  q \in {<< >>, <<"l">>},
                  f \in {<< >>, <<Filter("value", "gte", Num(1))>>},
                  s \in {NoSort, Sort("value", "desc")},
                  p \in 1..MaxPage,
                  ps \in {1, 2, DefaultPageSize}}
InitTotal == InitQuery(PageDatasets \cup {NullData}, TotalStates)
SpecTotal == InitTotal /\ [][QueryCall]_vars

\* search: every choice of searchable flags, upper-case search text, numbers
MaxSearchRows == 2
SearchNames == {Null, Str(<<"A","l">>), Str(<<"b","1">>)}
SearchValues == {Null, Num(1), Num(21)}
SearchDatasets == {Dataset(c, r) : c \in QuerySchemas,
                                   r \in RowSeqs(SearchNames, SearchValues, MaxSearchRows)}
SearchStates == {QueryState(q, << >>, NoSort, 1, DefaultPageSize) :
                   q \in {<< >>, <<"l">>, <<"A","L">>, <<"1">>, <<"n">>}}
InitSearch == InitQuery(SearchDatasets, SearchStates)
SpecSearch == InitSearch /\ [][QueryCall]_vars

\* filters: every operator of FilterState, and one that is not
MaxFilterRows == 2
KnownOperators == {"eq", "neq", "gt", "gte", "lt", "lte",
                   "contains", "startsWith", "endsWith", "in"}
\* rows that pass both, one or none of a filter on name and a filter on value
FilterCells == {<<Null, Null>>, <<Str(<<"A","l">>), Num(1)>>,
                <<Str(<<"l","a">>), Num(2)>>, <<Str(<<"A","l">>), Num(2)>>}
QueryFilters ==
    {Filter("name", "eq", Str(<<"A","l">>)),
     Filter("name", "neq", Null),
     Filter("value", "gt", Num(1)),
     Filter("value", "gte", Str(<<"2">>)),
     Filter("value", "lt", Num(2)),
     Filter("value", "lte", Num(1)),
     Filter("name", "contains", Str(<<"L">>)),
     Filter("name", "startsWith", Str(<<"a">>)),
     Filter("name", "endsWith", Str(<<"a">>)),
     FilterIn("value", "in", <<Num(2), Null>>),
     Filter("value", "in", Num(1)),
     Filter("value", "between", Num(2)),
     FilterIn("value", "between", <<Num(1), Num(2)>>),
     Filter("name", "unknown", Str(<<"z">>))}
FilterDatasets == {Dataset(SearchableName, r) :
                     r \in RowSeqsOf(FilterCells, MaxFilterRows)}
FilterStates == {QueryState(<< >>, f, NoSort, 1, DefaultPageSize) :
                   f \in FilterLists(QueryFilters, MaxFilters)}
InitFilter == InitQuery(FilterDatasets, FilterStates)
\* the one call of getFilteredData on the drawn rows and filters
FilterCall == calls = 0 /\ QueryCall
SpecFilter == InitFilter /\ [][FilterCall]_vars

(***************************************************************************)
(* Type inference and normalisation (lib/excel-parser)                     *)
(***************************************************************************)
AllOf(cs, P(_)) == \A i \in DOMAIN cs : P(cs[i])

Drop(cs, k) == SubSeq(cs, k + 1, Len(cs))

\* [^\s@]
IsEmailChar(c) == ~IsSpace(c) /\ c # "@"

\* EMAIL_REGEX = /^[^\s@]+@[^\s@]+\.[^\s@]+$/
EMAIL_REGEX(cs) ==
    \E i \in DOMAIN cs :
        /\ cs[i] = "@"
        /\ i > 1
        /\ \A k \in DOMAIN cs : k # i => IsEmailChar(cs[k])
        /\ \E j \in (i + 2)..(Len(cs) - 1) : cs[j] = "."

\* URL_REGEX = /^https?:\/\/[^\s]+$/
URL_REGEX(cs) ==
    \E prefix \in {<<"h","t","t","p",":","/","/">>, <<"h","t","t","p","s",":","/","/">>} :
        /\ StartsWith(cs, prefix)
        /\ Len(cs) > Len(prefix)
        /\ \A k \in (Len(prefix) + 1)..Len(cs) : ~IsSpace(cs[k])

\* /\.(jpg|jpeg|png|gif|webp|svg)$/i
ImageExtension(cs) ==
    \E ext \in {<<".","j","p","g">>, <<".","j","p","e","g">>, <<".","p","n","g">>,
                <<".","g","i","f">>, <<".","w","e","b","p">>, <<".","s","v","g">>} :
        EndsWith(ToLowerCase(cs), ext)

\* [\d\s()+-]
IsPhoneChar(c) == IsDigit(c) \/ IsSpace(c) \/ c \in {"(", ")", "+", "-"}

\* PHONE_REGEX = /^[\d\s()+-]{8,}$/
PHONE_REGEX(cs) == Len(cs) >= 8 /\ AllOf(cs, IsPhoneChar)

\* [\d.,]
IsAmountChar(c) == IsDigit(c) \/ c \in {".", ","}

\* [\d.,]+
IsAmount(cs) == cs # << >> /\ AllOf(cs, IsAmountChar)

\* [R$€£¥]: a character class, one character of it
CurrencySymbols == {"R", "$", "€", "£", "¥"}

\* CURRENCY_REGEX = /^[R$€£¥]\s?[\d.,]+$|^[\d.,]+\s?[R$€£¥]$/
CURRENCY_REGEX(cs) ==
    \/ /\ cs # << >> /\ cs[1] \in CurrencySymbols
       /\ \/ IsAmount(Drop(cs, 1))
          \/ /\ Len(cs) >= 2 /\ IsSpace(cs[2])
             /\ IsAmount(Drop(cs, 2))
    \/ /\ cs # << >> /\ cs[Len(cs)] \in CurrencySymbols
       /\ \/ IsAmount(SubSeq(cs, 1, Len(cs) - 1))
          \/ /\ Len(cs) >= 2 /\ IsSpace(cs[Len(cs) - 1])
             /\ IsAmount(SubSeq(cs, 1, Len(cs) - 2))

\* PERCENTAGE_REGEX = /^[\d.,]+\s?%$/
PERCENTAGE_REGEX(cs) ==
    /\ cs # << >> /\ cs[Len(cs)] = "%"
    /\ \/ IsAmount(SubSeq(cs, 1, Len(cs) - 1))
       \/ /\ Len(cs) >= 2 /\ IsSpace(cs[Len(cs) - 1])
          /\ IsAmount(SubSeq(cs, 1, Len(cs) - 2))

\* DATE_REGEX = /^\d{1,4}[-/]\d{1,2}[-/]\d{1,4}$/
DATE_REGEX(cs) ==
    \E p, q \in DOMAIN cs :
        /\ p < q
        /\ cs[p] \in {"-", "/"} /\ cs[q] \in {"-", "/"}
        /\ p - 1 \in 1..4 /\ q - p - 1 \in 1..2 /\ Len(cs) - q \in 1..4
        /\ \A k \in DOMAIN cs : k \notin {p, q} => IsDigit(cs[k])

\* String.prototype.replace(/[...]/g, ''): drop every character of the set
RemoveChars(cs, set) == SelectSeq(cs, LAMBDA c : c \notin set)

RECURSIVE ReplaceFirst(_, _, _)
\* String.prototype.replace(from, to) for one-character strings: first occurrence only
ReplaceFirst(cs, from, to) ==
    IF cs = << >> THEN << >>
    ELSE IF cs[1] = from THEN <<to>> \o Tail(cs)
    ELSE <<cs[1]>> \o ReplaceFirst(Tail(cs), from, to)

RECURSIVE DigitPrefix(_)
DigitPrefix(cs) ==
    IF cs # << >> /\ IsDigit(cs[1]) THEN <<cs[1]>> \o DigitPrefix(Tail(cs)) ELSE << >>

\* parseFloat(string): [nan, value]; the longest prefix, after leading white
\* space, of the form sign digits . digits (exponents and "Infinity" do not
\* occur in the strings parsed here)
ParseFloat(cs) ==
    LET t == TrimLeft(cs)
        negative == t # << >> /\ t[1] = "-"
        u == IF t # << >> /\ t[1] \in {"-", "+"} THEN Tail(t) ELSE t
        int == DigitPrefix(u)
        rest == Drop(u, Len(int))
        frac == IF rest # << >> /\ rest[1] = "." THEN DigitPrefix(Tail(rest)) ELSE << >>
        m == Decimal(DigitsToNat(int \o frac), Len(frac))
    IN IF int = << >> /\ frac = << >> THEN [nan |-> TRUE, value |-> Num(0)]
       ELSE [nan |-> FALSE, value |-> IF negative THEN [m EXCEPT !.n = -m.n] ELSE m]

ColumnTypes == {"string", "number", "currency", "percentage", "date", "datetime",
                "boolean", "email", "url", "phone", "image", "badge", "progress"}

BooleanTokens == {<<"t","r","u","e">>, <<"f","a","l","s","e">>, <<"s","i","m">>,
                  <<"n","ã","o">>, <<"y","e","s">>, <<"n","o">>, <<"0">>, <<"1">>}

\* the number branch: parseFloat(strValue.replace(/[,\s]/g, ''))
NumValue(strValue) == ParseFloat(RemoveChars(strValue, {",", " "}))

\* the bucket the loop body of inferColumnType counts a value in (first match wins)
Classify(value) ==
    LET strValue == Trim(JsString(value)) IN
    IF value.t = "bool" \/ ToLowerCase(strValue) \in BooleanTokens THEN "boolean"
    ELSE IF value.t = "date" THEN "date"
    ELSE IF EMAIL_REGEX(strValue) THEN "email"
    ELSE IF URL_REGEX(strValue) THEN (IF ImageExtension(strValue) THEN "image" ELSE "url")
    ELSE IF PHONE_REGEX(strValue) /\ ~\E i \in DOMAIN strValue : IsLetter(strValue[i])
         THEN "phone"
    ELSE IF CURRENCY_REGEX(strValue) THEN "currency"
    ELSE IF PERCENTAGE_REGEX(strValue) THEN "percentage"
    ELSE IF DATE_REGEX(strValue) THEN "date"
    ELSE IF ~NumValue(strValue).nan /\ value.t = "num" THEN "number"
    ELSE "string"

\* numValue >= 0 && numValue <= 100 in the number branch
CountsAsProgress(value) ==
    LET numValue == NumValue(Trim(JsString(value))).value
    IN /\ Classify(value) = "number"
       /\ NumDiff(numValue, Num(0)) >= 0 /\ NumDiff(numValue, Num(100)) <= 0

RECURSIVE TypeCounts(_, _)
\* typeCounts after the loop over nonNullValues
TypeCounts(values, counts) ==
    IF values = << >> THEN counts
    ELSE LET c == Classify(values[1])
             bumped == [counts EXCEPT ![c] = @ + 1]
         IN TypeCounts(Tail(values),
                       IF CountsAsProgress(values[1])
                       THEN [bumped EXCEPT !["progress"] = @ + 1]
                       ELSE bumped)

\* threshold = 0.7, as the fraction 7 / 10
ThresholdNum == 7
ThresholdDen == 10
BadgeMaxUnique_OffByOne == 10 - 1

BadgeMaxUnique == 10

priorityOrder_NumberFirst ==
    <<"email", "url", "image", "phone", "currency", "percentage",
      "date", "datetime", "boolean", "number", "progress", "badge", "string">>

priorityOrder ==
    <<"email", "url", "image", "phone", "currency", "percentage",
      "date", "datetime", "boolean", "progress", "number", "badge", "string">>

\* typeCounts[type] / total >= threshold
ReachesThreshold(count, total) == ThresholdDen * count >= ThresholdNum * total

\* values.filter(v => v != null && v !== '')
NonNullValues(values) == SelectSeq(values, LAMBDA v : ~IsNullish(v) /\ v # Str(<< >>))

inferColumnType(values) ==
    LET nonNullValues == NonNullValues(values)
        total == Len(nonNullValues)
        typeCounts == TypeCounts(nonNullValues, [t \in ColumnTypes |-> 0])
        reached == {i \in DOMAIN priorityOrder :
                       ReachesThreshold(typeCounts[priorityOrder[i]], total)}
        uniqueValues == {ToLowerCase(JsString(nonNullValues[i])) : i \in DOMAIN nonNullValues}
    IN IF total = 0 THEN "string"
       ELSE IF reached # {}
            THEN priorityOrder[CHOOSE i \in reached : \A j \in reached : i <= j]
       ELSE IF Cardinality(uniqueValues) <= BadgeMaxUnique /\ Cardinality(uniqueValues) > 0
            THEN "badge"
       ELSE "string"

\* normalizeValue(value, type), numeric branch:
\* String(value).replace(/[R$%,\s]/g, '').replace(',', '.')
NumericText(value) ==
    ReplaceFirst(RemoveChars(JsString(value), {"R", "$", "%", ",", " "}), ",", ".")

\* new Date(String(value)) for the texts parsed here: yyyy-mm-dd and
\* yyyy/mm/dd give a valid date (time value 0 stands for it), other texts
\* an invalid one
DateFromText(cs) ==
    IF /\ Len(cs) = 10 /\ cs[5] \in {"-", "/"} /\ cs[8] = cs[5]
       /\ \A k \in {1, 2, 3, 4, 6, 7, 9, 10} : IsDigit(cs[k])
    THEN DateValue(0, TRUE)
    ELSE DateValue(0, FALSE)

normalizeValue(value, type) ==
    IF IsNullish(value) THEN Null
    ELSE IF type \in {"number", "currency", "percentage", "progress"}
         THEN LET numValue == ParseFloat(NumericText(value))
              IN IF numValue.nan THEN Null ELSE numValue.value
    ELSE IF type = "boolean"
         THEN IF value.t = "bool" THEN value
              ELSE Bool(ToLowerCase(JsString(value)) \in
                          {<<"t","r","u","e">>, <<"s","i","m">>, <<"y","e","s">>, <<"1">>, <<"s">>})
    ELSE IF type \in {"date", "datetime"}
         THEN IF value.t = "date" THEN value
              ELSE LET dateValue == DateFromText(JsString(value))
                   IN IF dateValue.b THEN dateValue ELSE Null
    ELSE Str(JsString(value))

\* row[key]: undefined when the row object has no such key
Cell(row, key) == IF key \in DOMAIN row THEN row[key] ELSE Undefined

\* the column definition pushed for a header whose inferred type is
\* inferredType (label and badge colours are not modelled)
ColumnOfType(header, inferredType) ==
    [key |-> header,
     type |-> inferredType,
     searchable |-> inferredType \in {"string", "email"},
     hidden |-> FALSE,
     align |-> CASE inferredType \in {"currency", "number", "percentage", "progress"} -> "right"
                 [] inferredType \in {"date", "datetime", "badge", "boolean"} -> "center"
                 [] OTHER -> "",
     currency |-> IF inferredType = "currency" THEN "BRL" ELSE "",
     decimals |-> IF inferredType \in {"number", "percentage", "progress"} THEN 2 ELSE 0,
     dateFormat |-> CASE inferredType = "date" -> "dd/MM/yyyy"
                      [] inferredType = "datetime" -> "dd/MM/yyyy HH:mm"
                      [] OTHER -> ""]

\* the column definition generateSchemaFromData builds for a header:
\* values = data.map(row => row[header]), inferredType = inferColumnType(values)
GeneratedColumn(header, rows) ==
    ColumnOfType(header, inferColumnType([i \in DOMAIN rows |-> Cell(rows[i], header)]))

generateSchemaFromData(headers, rows) ==
    [columns |-> [i \in DOMAIN headers |-> GeneratedColumn(headers[i], rows)],
     defaultSort |-> NoSort]

IdKey == <<"_","i","d">>
RowIndexKey == <<"_","r","o","w","I","n","d","e","x">>

\* `${Date.now()}-${Math.random().toString(36).substring(2, 11)}` for a
\* reading of the clock and a text drawn by Math.random
generateId(now, random) == Str(NatToStr(now) \o <<"-">> \o random)

ColumnKeys(columns) == {columns[c].key : c \in DOMAIN columns}

\* what finalSchema.columns.forEach writes into processedRow: each cell
\* normalised by the type of its column
ProcessedCells(row, columns) ==
    [k \in ColumnKeys(columns) |->
        normalizeValue(Cell(row, k), (CHOOSE c \in Range(columns) : c.key = k).type)]

\* processedRow for the row at index i - 1: _id and _rowIndex are written
\* first, so a column of that key overwrites them
ProcessedRow(row, i, columns, id) ==
    [id |-> IF IdKey \in ColumnKeys(columns) THEN ProcessedCells(row, columns)[IdKey] ELSE id,
     rowIndex |-> IF RowIndexKey \in ColumnKeys(columns)
                  THEN ProcessedCells(row, columns)[RowIndexKey] ELSE Num(i - 1),
     cells |-> ProcessedCells(row, columns)]

\* the rows processData builds under finalSchema; ids[i] is what generateId
\* returns for the row at index i - 1
ProcessedRows(rows, columns, ids) ==
    [i \in DOMAIN rows |-> ProcessedRow(rows[i], i, columns, ids[i])]

\* the ProcessedData of a schema and its rows
ProcessedData(finalSchema, rows, errors, ids) ==
    [isNull |-> FALSE,
     schema |-> finalSchema,
     rows |-> ProcessedRows(rows, finalSchema.columns, ids),
     metadata |-> Metadata(Len(rows), errors)]

\* schema || generateSchemaFromData(headers, data, options)
FinalSchema(parseResult, schema) ==
    IF schema.isNull THEN generateSchemaFromData(parseResult.headers, parseResult.data)
    ELSE [columns |-> schema.columns, defaultSort |-> schema.defaultSort]

\* processData(parseResult, schema, options)
processData(parseResult, schema, ids) ==
    ProcessedData(FinalSchema(parseResult, schema), parseResult.data, parseResult.errors, ids)

(***************************************************************************)
(* Calls of inferColumnType and processData on drawn inputs                *)
(***************************************************************************)
RECURSIVE SeqsUpTo(_, _)
\* all sequences of at most n elements of the set S
SeqsUpTo(S, n) ==
    IF n = 0 THEN {<< >>}
    ELSE LET shorter == SeqsUpTo(S, n - 1)
         IN shorter \cup {Append(q, x) : q \in shorter, x \in S}

\* native booleans and numbers, boolean words, empty cells
SampleNative == {Null, Bool(TRUE), Str(<<"s","i","m">>), Num(1), Num(50), Num(200)}
\* texts the patterns tell apart, a Date, a plain word
SampleText == {Str(<< >>), Str(<<"a","@","b",".","c">>),
               Str(<<"h","t","t","p",":","/","/","x">>),
               Str(<<"h","t","t","p",":","/","/","x",".","P","N","G">>),
               DateValue(1, TRUE), Str(<<"h","i">>)}
\* amounts, percentages, dates and phone numbers as text
SampleAmount == {Str(<<"$","5">>), Str(<<"R","$"," ","5">>), Str(<<"5"," ","%">>),
                 Str(<<"1","/","2","/","3">>),
                 Str(<<"2","0","2","4","-","0","1","-","1","5">>),
                 Num(5)}
\* native numbers at and around the ends of [0, 100]
SampleRange == {Num(0), Num(1), Num(50), Num(100), Num(101)}

InitInfer ==
    /\ InitStore
    /\ result = [rows |-> << >>, totalFiltered |-> 0]
    /\ calls = 0
    /\ acc = << >>
    /\ parseInput = [headers |-> << >>, data |-> << >>, errors |-> << >>]
    /\ schemaInput = NoSchema
    /\ processed = NullData
    /\ InitUploadIdle
    /\ column \in SeqsUpTo(SampleNative, MaxSample) \cup SeqsUpTo(SampleText, MaxSample)
                    \cup SeqsUpTo(SampleAmount, MaxSample)
                    \cup SeqsUpTo(SampleRange, MaxSample)
    /\ inferred = ""

\* one call inferColumnType(column)
Infer ==
    /\ inferred = ""
    /\ inferred' = inferColumnType(column)
    /\ UNCHANGED <<storeVars, queryVars, uploadVars, timerVars, clearedAt, parseInput, schemaInput, processed, column>>

SpecInfer == InitInfer /\ [][Infer]_vars

MaxParseRows == 2
RealText == <<"R","$"," ">>
ParseNames == {Str(<<"A">>), Str(<<"B">>)}
ParsePrices == {Str(RealText \o <<"1","0",",","5","0">>),
                Str(RealText \o <<"2","0",",","0","0">>),
                Str(<<"€"," ","1","0",",","5","0">>),
                Str(<<"$","1","0",".","5">>),
                Num(20),
                Null}
NameKey == <<"n","a","m","e">>
PriceKey == <<"p","r","i","c","e">>
ParseRow(nm, pr) == [k \in {NameKey, PriceKey} |-> IF k = NameKey THEN nm ELSE pr]
\* a row of a sheet whose first column is headed _id
IdRow(id, nm) == [k \in {IdKey, NameKey} |-> IF k = IdKey THEN id ELSE nm]
ParseIds == {Str(<<"x","7">>), Str(<<"x","8">>)}
ParseResults ==
    {[headers |-> <<NameKey, PriceKey>>, data |-> rows, errors |-> << >>] :
        rows \in UNION {[1..k -> {ParseRow(nm, pr) : nm \in ParseNames, pr \in ParsePrices}] :
                           k \in 0..MaxParseRows}}
    \cup {[headers |-> <<IdKey, NameKey>>, data |-> rows, errors |-> << >>] :
        rows \in UNION {[1..k -> {IdRow(id, Str(<<"A">>)) : id \in ParseIds}] :
                           k \in 1..MaxParseRows}}

\* the clock readings and the texts Math.random gives during a call
MaxMillis == 1
RandomTexts == {<<"a">>, <<"b">>}
\* what the calls of generateId for n rows can return: the clock never goes back
GeneratedIds(n) ==
    {[i \in 1..n |-> generateId(c[i][1], c[i][2])] :
        c \in {c \in [1..n -> (0..MaxMillis) \X RandomTexts] :
                  \A i \in 1..(n - 1) : c[i][1] <= c[i + 1][1]}}

\* Scenario A of the specification
ScenarioA ==
    [headers |-> <<NameKey, PriceKey>>,
     data |-> <<ParseRow(Str(<<"A">>), Str(RealText \o <<"1","0",",","5","0">>)),
                ParseRow(Str(<<"B">>), Str(RealText \o <<"2","0",",","0","0">>))>>,
     errors |-> << >>]

InitProcess ==
    /\ InitStore
    /\ result = [rows |-> << >>, totalFiltered |-> 0]
    /\ calls = 0
    /\ acc = << >>
    /\ InitUploadIdle
    /\ parseInput \in ParseResults
    /\ schemaInput = NoSchema
    /\ processed = NullData
    /\ column = << >>
    /\ inferred = ""

\* one call processData(parseInput)
ProcessData ==
    /\ processed.isNull
    /\ \E ids \in GeneratedIds(Len(parseInput.data)) :
          processed' = processData(parseInput, schemaInput, ids)
    /\ UNCHANGED <<storeVars, queryVars, uploadVars, timerVars, clearedAt, parseInput, schemaInput, column, inferred>>

SpecProcess == InitProcess /\ [][ProcessData]_vars

(***************************************************************************)
(* Properties                                                              *)
(***************************************************************************)
Max(a, b) == IF a >= b THEN a ELSE b

CurrentTotalFiltered == getFilteredData(data, tableState).totalFiltered

\* C1: with a dataset loaded, tableState.pagination.page lies within
\* [1, max(1, ceil(totalFiltered / pageSize))], totalFiltered being what
\* getFilteredData returns for the current data and table state.
C1_PageWithinFilteredRange ==
    ~data.isNull =>
        /\ tableState.pagination.page >= 1
        /\ tableState.pagination.page <=
              Max(1, Ceil(CurrentTotalFiltered, tableState.pagination.pageSize))

FiltersOf(k) == SelectSeq(tableState.filters, LAMBDA f : f.column = k)

\* C2: tableState.filters holds at most one filter per column, and the filter
\* stored for a column is the one most recently added for it; adding a filter
\* leaves the filters of the other columns in place.
C2_OneFilterPerColumn ==
    /\ \A i \in DOMAIN tableState.filters : tableState.filters[i].column \in Keys
    /\ \A k \in Keys :
          FiltersOf(k) = IF lastAdded[k].filter = NoFilter THEN << >>
                         ELSE <<lastAdded[k].filter>>

\* a filter replaced an earlier one of its column while another column's filter stayed
C2_Witness ==
    /\ Len(tableState.filters) = 2
    /\ lastAdded[tableState.filters[2].column].replaced
    /\ tableState.filters[1].column # tableState.filters[2].column

\* C3: with an active sort on column c, asc or desc, every row whose value in
\* c is null or undefined comes after every row whose value in c is non-null
\* in the pre-pagination result.
C3_NullsLast ==
    (calls >= 1 /\ tableState.sort.active) =>
        \A i, j \in DOMAIN result.rows :
            (/\ IsNullish(result.rows[i].cells[tableState.sort.column])
             /\ ~IsNullish(result.rows[j].cells[tableState.sort.column])) => j < i

\* a descending sort moved a null (or undefined) row from the front to behind two others
C3_Witness ==
    /\ calls >= 1 /\ tableState.sort.active /\ tableState.sort.direction = "desc"
    /\ Len(data.rows) = 3 /\ Len(result.rows) = 3
    /\ IsNullish(data.rows[1].cells[tableState.sort.column])
    /\ ~IsNullish(data.rows[2].cells[tableState.sort.column])
    /\ ~IsNullish(data.rows[3].cells[tableState.sort.column])
    /\ result.rows[3] = data.rows[1]
    /\ result.rows[1] # data.rows[2]

WalkComplete ==
    /\ calls >= 1
    /\ tableState.pagination.page * tableState.pagination.pageSize >= result.totalFiltered

\* C4: the rows of pages 1..ceil(totalFiltered / pageSize), concatenated in
\* order, are exactly the filtered and sorted row sequence, and every page
\* but the last holds exactly pageSize rows.
C4_PagesConcatenate ==
    /\ WalkComplete => acc = SortedRows(data, tableState).arr
    /\ (calls >= 1 /\ ~WalkComplete) => Len(result.rows) = tableState.pagination.pageSize

\* three filtered rows fetched as a full page of two and a last page of one
C4_Witness ==
    /\ WalkComplete
    /\ tableState.pagination.page = 2 /\ tableState.pagination.pageSize = 2
    /\ Len(acc) = 3 /\ Len(result.rows) = 1
    /\ tableState.sort.active /\ tableState.filters # << >>

\* the claim's matching rule for the search text
MatchesSearch(row) ==
    \E i \in DOMAIN data.schema.columns :
        LET c == data.schema.columns[i] IN
        /\ c.searchable
        /\ ~IsNullish(row.cells[c.key])
        /\ Includes(ToLowerCase(JsString(row.cells[c.key])), ToLowerCase(tableState.search))

PassesAll(row) ==
    /\ tableState.search # << >> => MatchesSearch(row)
    /\ \A i \in DOMAIN tableState.filters : FilterKeeps(row, tableState.filters[i])

\* C5: totalFiltered is the number of rows passing search and all filters,
\* whatever the page and page size, also for a page past the last one; with
\* data = null the call returns no rows and totalFiltered 0.
C5_TotalIsPrePagination ==
    calls >= 1 =>
        /\ result.totalFiltered = Cardinality({i \in DOMAIN data.rows : PassesAll(data.rows[i])})
        /\ data.isNull => (result.rows = << >> /\ result.totalFiltered = 0)

\* a page past the last one: no rows returned, two rows counted
C5_Witness ==
    /\ calls >= 1
    /\ tableState.pagination.page = 2 /\ tableState.pagination.pageSize = 2
    /\ result.rows = << >> /\ result.totalFiltered = 2
    /\ Len(data.rows) = 3

C7_SearchMatchesSearchable ==
    calls >= 1 =>
        result.rows = IF tableState.search = << >> THEN data.rows
                      ELSE SelectSeq(data.rows, MatchesSearch)

\* a row is kept by an upper-case search text while another row, whose only
\* match is in a column that is not searchable, is dropped
C7_Witness ==
    /\ calls >= 1
    /\ tableState.search = <<"A","L">>
    /\ Len(data.rows) = 2 /\ Len(result.rows) = 1
    /\ ~data.schema.columns[2].searchable

\* C8: a row is kept iff it satisfies every filter, whatever the order of the
\* filters, and a filter whose operator is not one of the ten implemented
\* ones ('between' included) keeps all rows.
C8_FiltersConjoin ==
    calls >= 1 =>
        result.rows =
            SelectSeq(data.rows,
                      LAMBDA r : \A f \in Range(tableState.filters) :
                                    f.operator \in KnownOperators => FilterKeeps(r, f))

\* an unimplemented operator next to an implemented one that drops a row
C8_Witness ==
    /\ calls >= 1
    /\ Len(tableState.filters) = 2
    /\ tableState.filters[1].operator = "between"
    /\ tableState.filters[2].operator = "lt"
    /\ Len(data.rows) = 2 /\ Len(result.rows) = 1

TypeOfColumn(d, k) == (CHOOSE c \in Range(d.schema.columns) : c.key = k).type

\* C9: Scenario A: processData without a schema on headers [name, price] and
\* prices "R$ 10,50", "R$ 20,00" infers price as currency and normalises the
\* cells to the numbers 10.5 and 20.
C9_ScenarioA ==
    (~processed.isNull /\ parseInput = ScenarioA) =>
        /\ TypeOfColumn(processed, PriceKey) = "currency"
        /\ processed.rows[1].cells[PriceKey] = Decimal(105, 1)
        /\ processed.rows[2].cells[PriceKey] = Num(20)

\* the claim's tally: the sampled values the first-match precedence puts in
\* type T; for progress, the native numbers within [0, 100]
Tally(T) ==
    LET sample == NonNullValues(column)
    IN Cardinality({i \in DOMAIN sample :
                      IF T = "progress" THEN CountsAsProgress(sample[i])
                      ELSE Classify(sample[i]) = T})

Reaches70(T) == 10 * Tally(T) >= 7 * Len(NonNullValues(column))

PriorityIndex(T) == CHOOSE i \in 1..13 :
    <<"email", "url", "image", "phone", "currency", "percentage", "date",
      "datetime", "boolean", "progress", "number", "badge", "string">>[i] = T

\* C10: if at least 70% of the non-null, non-empty sampled values are
\* classified into type T and no type before T in the priority order
\* reaches 70%, inferColumnType returns T.
C10_ThresholdLaw ==
    (inferred # "" /\ NonNullValues(column) # << >>) =>
        \A T \in ColumnTypes :
            (/\ Reaches70(T)
             /\ \A E \in ColumnTypes : PriorityIndex(E) < PriorityIndex(T) => ~Reaches70(E))
            => inferred = T

\* three of four values within [0, 100]: progress and number both reach 70%
\* and progress, the earlier one, is returned
C10_Witness ==
    /\ inferred = "progress"
    /\ Len(column) = 4
    /\ Tally("progress") = 3 /\ Tally("number") = 4

(***************************************************************************)
(* The badge fallback on columns of up to MaxBadgeSample values            *)
(***************************************************************************)
MaxBadgeSample == 12

\* a column of n cells: k native numbers above 100, then one-letter words all
\* different; with dup = "case" the last word is the one before it in upper
\* case, with dup = "same" it repeats the one before it
BadgeSample(n, k, dup) ==
    [i \in 1..n |->
        IF i <= k THEN Num(100 + i)
        ELSE IF i = n /\ n - k >= 2 /\ dup = "case" THEN Str(<<UpperChars[i - 1]>>)
        ELSE IF i = n /\ n - k >= 2 /\ dup = "same" THEN Str(<<LowerChars[i - 1]>>)
        ELSE Str(<<LowerChars[i]>>)]

BadgeSamples ==
    {BadgeSample(n, k, dup) : n \in 0..MaxBadgeSample, k \in 0..MaxBadgeSample,
                              dup \in {"none", "case", "same"}}

InitBadge ==
    /\ InitStore
    /\ result = [rows |-> << >>, totalFiltered |-> 0]
    /\ calls = 0
    /\ acc = << >>
    /\ parseInput = [headers |-> << >>, data |-> << >>, errors |-> << >>]
    /\ schemaInput = NoSchema
    /\ processed = NullData
    /\ InitUploadIdle
    /\ column \in BadgeSamples
    /\ inferred = ""

SpecBadge == InitBadge /\ [][Infer]_vars

\* the count of distinct sample values, by case-insensitive string form
DistinctCount ==
    LET sample == NonNullValues(column)
    IN Cardinality({ToLowerCase(JsString(sample[i])) : i \in DOMAIN sample})

RECURSIVE LastIndexOf(_, _)
\* String.prototype.lastIndexOf(c), counted from 1; 0 when c does not occur
LastIndexOf(cs, c) ==
    IF cs = << >> THEN 0
    ELSE IF cs[Len(cs)] = c THEN Len(cs)
    ELSE LastIndexOf(SubSeq(cs, 1, Len(cs) - 1), c)

\* name.split('.').pop()?.toLowerCase()
Extension(name) == ToLowerCase(Drop(name, LastIndexOf(name, ".")))

XlsxText == <<"x","l","s","x">>
XlsText == <<"x","l","s">>
CsvText == <<"c","s","v">>
CsvMime == <<"t","e","x","t","/","c","s","v">>

detectFileType_CsvByDefault(f) ==
    LET extension == Extension(f.name)
    IN IF extension = XlsxText THEN "xlsx"
       ELSE IF extension = XlsText THEN "xls"
       ELSE "csv"

\* excel-parser detectFileType(file)
detectFileType(f) ==
    LET extension == Extension(f.name)
    IN IF extension = XlsxText THEN "xlsx"
       ELSE IF extension = XlsText THEN "xls"
       ELSE IF extension = CsvText \/ f.type = CsvMime THEN "csv"
       ELSE "unknown"

\* useExcelWorker detectFileType(fileName)
hookDetectFileType(fileName) ==
    LET extension == Extension(fileName)
    IN IF extension = XlsxText THEN "xlsx"
       ELSE IF extension = XlsText THEN "xls"
       ELSE IF extension = CsvText THEN "csv"
       ELSE "unknown"

\* h?.toString().trim() || `column_${i}`, i counted from 0
HeaderOf(h, i) ==
    LET text == IF IsNullish(h) THEN << >> ELSE Trim(JsString(h))
    IN IF text = << >> THEN <<"c","o","l","u","m","n","_">> \o NatToStr(i) ELSE text

\* (row as CellValue[])[i] ?? null, i counted from 1
CellOrNull(row, i) == IF i > Len(row) \/ IsNullish(row[i]) THEN Null ELSE row[i]

\* the row object headers.forEach fills: a later header of the same name
\* overwrites the earlier one
RowData(headers, row) ==
    [h \in Range(headers) |->
        CellOrNull(row, CHOOSE i \in DOMAIN headers :
                          headers[i] = h /\ \A j \in DOMAIN headers : headers[j] = h => j <= i)]

\* the ParseResult parseExcel builds from the rows of the first worksheet
\* (the worker's parseExcel builds its payload the same way)
ExcelResult(rawData) ==
    IF Len(rawData) = 0 THEN [EmptyResult EXCEPT !.errors = <<"Planilha vazia">>]
    ELSE LET headers == [i \in DOMAIN rawData[1] |-> HeaderOf(rawData[1][i], i - 1)]
         IN [headers |-> headers,
             data |-> [r \in 1..(Len(rawData) - 1) |-> RowData(headers, rawData[r + 1])],
             rawData |-> rawData,
             errors |-> << >>]

\* the ParseResult parseCSV resolves with, from the complete or the error
\* callback of Papa.parse (the worker's parseCSV resolves the same way)
CsvResult(papa) ==
    IF papa.failed THEN [EmptyResult EXCEPT !.errors = <<papa.message>>]
    ELSE [headers |-> IF papa.hasFields THEN papa.fields ELSE << >>,
          data |-> papa.data,
          rawData |-> papa.data,
          errors |-> papa.errors]

\* excel-parser parseFile(file): threw (the promise rejects, XLSX.read
\* having thrown), the ParseResult it resolves with, the decoder it invoked
parseFile(f) ==
    LET fileType == detectFileType(f)
    IN IF fileType \in {"xlsx", "xls"}
       THEN IF f.unreadable
            THEN [threw |-> TRUE, message |-> "NotReadableError", result |-> EmptyResult,
                  decoder |-> <<"parseExcel">>]
            ELSE IF f.throws
            THEN [threw |-> TRUE, message |-> "XLSX.read", result |-> EmptyResult,
                  decoder |-> <<"parseExcel">>]
            ELSE [threw |-> FALSE, message |-> "", result |-> ExcelResult(f.raw),
                  decoder |-> <<"parseExcel">>]
       ELSE IF fileType = "csv"
       THEN [threw |-> FALSE, message |-> "",
             result |-> CsvResult(IF f.unreadable
                                  THEN [NoPapa EXCEPT !.failed = TRUE,
                                                      !.message = "NotReadableError"]
                                  ELSE f.papa),
             decoder |-> <<"parseCSV">>]
       ELSE [threw |-> FALSE, message |-> "",
             result |-> [EmptyResult EXCEPT
                           !.errors = <<"Tipo de arquivo não suportado: ${file.name}">>],
             decoder |-> << >>]

(***************************************************************************)
(* The parsing worker (lib/excel-worker)                                   *)
(***************************************************************************)
\* WorkerResult messages; the fields a message type does not use are empty
ProgressMessage(stage, progress) ==
    [type |-> "progress", stage |-> stage, progress |-> progress,
     result |-> EmptyResult, message |-> ""]
ResultMessage(payload) ==
    [type |-> "result", stage |-> "", progress |-> 0, result |-> payload, message |-> ""]
ErrorMessage(message) ==
    [type |-> "error", stage |-> "", progress |-> 0, result |-> EmptyResult, message |-> message]
ReadyMessage ==
    [type |-> "ready", stage |-> "", progress |-> 0, result |-> EmptyResult, message |-> ""]

\* totalRows > 1000 && index % 1000 === 0
ProgressEvery == 1000

\* the progress events of the row loop: for index 0, 1000, 2000, ... below
\* totalRows, 60 + Math.floor((index / totalRows) * 30)
RowProgress(totalRows) ==
    IF totalRows > ProgressEvery
    THEN [j \in 1..Ceil(totalRows, ProgressEvery) |->
            ProgressMessage("processing",
                            60 + (((j - 1) * ProgressEvery * 30) \div totalRows))]
    ELSE << >>

\* the worker's parseExcel(arrayBuffer): the progress events it sends, and
\* whether XLSX.read threw
workerParseExcel(f) ==
    IF f.throws
    THEN [progress |-> <<ProgressMessage("parsing", 20)>>, threw |-> TRUE,
          result |-> EmptyResult]
    ELSE IF Len(f.raw) = 0
    THEN [progress |-> <<ProgressMessage("parsing", 20), ProgressMessage("parsing", 40)>>,
          threw |-> FALSE, result |-> ExcelResult(f.raw)]
    ELSE [progress |-> <<ProgressMessage("parsing", 20), ProgressMessage("parsing", 40),
                         ProgressMessage("processing", 60)>>
                       \o RowProgress(Len(f.raw) - 1)
                       \o <<ProgressMessage("complete", 100)>>,
          threw |-> FALSE, result |-> ExcelResult(f.raw)]

\* the worker's parseCSV(text); Papa.parse reads nothing when handed a
\* string, so papa.failed is FALSE here
workerParseCSV(f) ==
    IF f.papa.failed
    THEN [progress |-> <<ProgressMessage("parsing", 20)>>, threw |-> FALSE,
          result |-> CsvResult(f.papa)]
    ELSE [progress |-> <<ProgressMessage("parsing", 20), ProgressMessage("processing", 80),
                         ProgressMessage("complete", 100)>>,
          threw |-> FALSE, result |-> CsvResult(f.papa)]

\* everything the message handler posts for one parse message
HandlerMessages(f, fileType) ==
    LET parsed == IF fileType = "csv" THEN workerParseCSV(f) ELSE workerParseExcel(f)
    IN <<ProgressMessage("reading", 10)>> \o parsed.progress
       \o <<IF parsed.threw THEN ErrorMessage("XLSX.read") ELSE ResultMessage(parsed.result)>>

\* the worker script is evaluated: the listener is registered, ready is posted
WorkerLoad ==
    /\ worker.state = "loading"
    /\ worker' = [worker EXCEPT !.state = "listening"]
    /\ posted' = Append(posted, ReadyMessage)
    /\ sent' = Append(sent, ReadyMessage)
    /\ UNCHANGED <<storeVars, queryVars, parserVars, timerVars, clearedAt, file, isWorkerSupported, beforeSet, upload, hook, decoded>>

\* the message handler runs on the next parse message
WorkerHandle ==
    /\ worker.state = "listening"
    /\ worker.inbox # << >>
    /\ LET messages == HandlerMessages(file, worker.inbox[1].fileType)
       IN /\ posted' = posted \o messages
          /\ sent' = sent \o messages
    /\ worker' = [worker EXCEPT !.inbox = Tail(@)]
    /\ UNCHANGED <<storeVars, queryVars, parserVars, timerVars, clearedAt, file, isWorkerSupported, beforeSet, upload, hook, decoded>>

(***************************************************************************)
(* useExcelWorker.parseFile, in a page with Web Workers (hook[TRUE]) and   *)
(* in one without (hook[FALSE]).  worker.ref is workerRef.current being    *)
(* the worker.                                                             *)
(***************************************************************************)
\* the promise rejects with an error of this message; the catch clause of
\* parseFile runs: setIsLoading(false), setError(message), throw
Rejected(h, message) ==
    [h EXCEPT !.pc = "settled", !.isLoading = FALSE, !.error = message,
              !.outcome = "rejected", !.message = message]

\* worker.terminate(); workerRef.current = null
Terminated(w) == [w EXCEPT !.state = "terminated", !.ref = FALSE]

\* the hook's parseFile(file) up to its first await: with workers, the
\* Worker is constructed and file.arrayBuffer() awaited; without, the
\* parser module is imported
hookParseFile(w) ==
    /\ hook[w].pc = "idle"
    /\ hook' = [hook EXCEPT ![w] =
                  [@ EXCEPT !.isLoading = TRUE, !.error = "",
                            !.progress = [stage |-> "reading", progress |-> 0],
                            !.pc = IF w THEN "reading" ELSE "importing"]]
    /\ worker' = IF w THEN [state |-> "loading", inbox |-> << >>, ref |-> TRUE] ELSE worker

\* file.arrayBuffer().then(...) of parseWithWorker; there is no catch, so
\* nothing runs when the file cannot be read
ArrayBufferRead ==
    /\ hook[TRUE].pc = "reading"
    /\ ~file.unreadable
    /\ LET fileType == hookDetectFileType(file.name)
       IN IF fileType = "unknown"
          THEN /\ hook' = [hook EXCEPT ![TRUE] =
                             Rejected(@, "Tipo de arquivo não suportado: ${file.name}")]
               /\ UNCHANGED worker
          ELSE /\ hook' = [hook EXCEPT ![TRUE].pc = "waiting"]
               /\ worker' = [worker EXCEPT !.inbox = Append(@, [fileType |-> fileType])]
    /\ UNCHANGED <<storeVars, queryVars, parserVars, timerVars, clearedAt, file, isWorkerSupported, beforeSet, upload,
                   posted, sent, decoded>>

\* worker.onmessage on the next message of the worker
OnMessage ==
    /\ posted # << >>
    /\ worker.state # "terminated"
    /\ posted' = Tail(posted)
    /\ LET m == posted[1]
           h == hook[TRUE]
       IN CASE m.type = "progress" ->
                 /\ hook' = [hook EXCEPT ![TRUE] =
                               [h EXCEPT !.progress = [stage |-> m.stage, progress |-> m.progress],
                                         !.delivered = Append(@, [stage |-> m.stage,
                                                                  progress |-> m.progress])]]
                 /\ UNCHANGED worker
            [] m.type = "result" ->
                 /\ hook' = [hook EXCEPT ![TRUE] =
                               IF h.outcome = "pending"
                               THEN [h EXCEPT !.pc = "settled", !.isLoading = FALSE,
                                              !.progress = NoProgress,
                                              !.outcome = "resolved", !.result = m.result]
                               ELSE [h EXCEPT !.isLoading = FALSE, !.progress = NoProgress]]
                 /\ worker' = Terminated(worker)
            [] m.type = "error" ->
                 /\ hook' = [hook EXCEPT ![TRUE] =
                               IF h.outcome = "pending" THEN Rejected(h, m.message)
                               ELSE [h EXCEPT !.isLoading = FALSE, !.error = m.message]]
                 /\ worker' = Terminated(worker)
            [] OTHER -> UNCHANGED <<hook, worker>>
    /\ UNCHANGED <<storeVars, queryVars, parserVars, timerVars, clearedAt, file, isWorkerSupported, beforeSet, upload,
                   sent, decoded>>

\* worker.onerror: the worker script fails to load or to evaluate
OnError ==
    /\ worker.state = "loading"
    /\ hook' = [hook EXCEPT ![TRUE] =
                  IF @.outcome = "pending" THEN Rejected(@, "ErrorEvent")
                  ELSE [@ EXCEPT !.isLoading = FALSE, !.error = "ErrorEvent"]]
    /\ worker' = Terminated(worker)
    /\ UNCHANGED <<storeVars, queryVars, parserVars, timerVars, clearedAt, file, isWorkerSupported, beforeSet, upload,
                   posted, sent, decoded>>

\* parseWithoutWorker from the import on: excel-parser's parseFile between
\* two setProgress calls
ParseWithoutWorker ==
    /\ hook[FALSE].pc = "importing"
    /\ LET parsed == parseFile(file)
           h == [hook[FALSE] EXCEPT !.progress = [stage |-> "parsing", progress |-> 50]]
       IN /\ hook' = [hook EXCEPT ![FALSE] =
                        IF parsed.threw THEN Rejected(h, parsed.message)
                        ELSE [h EXCEPT !.pc = "settled",
                                       !.progress = [stage |-> "complete", progress |-> 100],
                                       !.outcome = "resolved", !.result = parsed.result]]
          /\ decoded' = decoded \o parsed.decoder
    /\ UNCHANGED <<storeVars, queryVars, parserVars, timerVars, clearedAt, file, isWorkerSupported, beforeSet, upload,
                   worker, posted, sent>>

\* the caller calls parseFile(file) of the hook
HookParseFile(w) ==
    /\ hookParseFile(w)
    /\ UNCHANGED <<storeVars, queryVars, parserVars, timerVars, clearedAt, file, isWorkerSupported, beforeSet, upload,
                   posted, sent, decoded>>

(***************************************************************************)
(* Both ways of useExcelWorker.parseFile on one file                       *)
(***************************************************************************)
MaxSheetRows == 2
MaxThousands == 2

\* FileUpload: file.size > 50 * 1024 * 1024
MaxFileSize == 50 * 1024 * 1024

FileNames == {<<"d",".","x","l","s","x">>, <<"d",".","X","L","S">>, <<"d",".","c","s","v">>,
              <<"d",".","t","x","t">>, <<"d","a","t","a">>}
FileTypes == {<< >>, CsvMime}

\* rows of a worksheet as sheet_to_json gives them: formatted text, null for
\* a blank cell; a row may be shorter than the header row
SheetRowKinds == {<< >>, <<Str(<<"a">>), Str(<<"b">>)>>, <<Str(<<" ","a"," ">>), Null>>,
                  <<Str(<<"a">>), Str(<<"a">>)>>, <<Str(<<"1">>)>>}
SheetContents ==
    {[unreadable |-> FALSE, throws |-> FALSE, raw |-> r, papa |-> NoPapa] :
        r \in SeqsUpTo(SheetRowKinds, MaxSheetRows)}

\* a worksheet of one column with a header and totalRows rows
BigSheet(totalRows) == [i \in 1..(totalRows + 1) |-> <<Str(<<"a">>)>>]
BigContents ==
    {[unreadable |-> FALSE, throws |-> FALSE, raw |-> BigSheet(k * ProgressEvery + d),
      papa |-> NoPapa] :
        k \in 1..MaxThousands, d \in {0, 1}}

\* delimited text: rows under the fields a and b, parse errors, no fields;
\* XLSX.read throws on such bytes
CsvRow == [h \in {<<"a">>, <<"b">>} |-> IF h = <<"a">> THEN Num(1) ELSE Null]
TextContents ==
    {[unreadable |-> FALSE, throws |-> TRUE, raw |-> << >>, papa |-> p] :
        p \in {[NoPapa EXCEPT !.hasFields = TRUE, !.fields = <<<<"a">>, <<"b">>>>,
                              !.data = <<CsvRow>>],
               [NoPapa EXCEPT !.hasFields = TRUE, !.fields = <<<<"a">>, <<"b">>>>],
               [NoPapa EXCEPT !.hasFields = TRUE, !.fields = <<<<"a">>, <<"b">>>>,
                              !.data = <<CsvRow>>, !.errors = <<"Too few fields">>],
               NoPapa}}

\* bytes that cannot be read
UnreadableContents == {[unreadable |-> TRUE, throws |-> FALSE, raw |-> << >>, papa |-> NoPapa]}

FileOf(name, type, size, content) ==
    [name |-> name, type |-> type, size |-> size, unreadable |-> content.unreadable,
     throws |-> content.throws, raw |-> content.raw, papa |-> content.papa]

PathFiles ==
    {FileOf(n, t, 1024, c) : n \in FileNames, t \in FileTypes,
                             c \in SheetContents \cup TextContents \cup UnreadableContents}
    \cup {FileOf(<<"d",".","x","l","s","x">>, << >>, 1024, c) : c \in BigContents}

InitPaths ==
    /\ InitStore
    /\ result = [rows |-> << >>, totalFiltered |-> 0]
    /\ calls = 0
    /\ acc = << >>
    /\ parseInput = [headers |-> << >>, data |-> << >>, errors |-> << >>]
    /\ schemaInput = NoSchema
    /\ processed = NullData
    /\ column = << >>
    /\ inferred = ""
    /\ file \in PathFiles
    /\ isWorkerSupported = TRUE
    /\ upload = [pc |-> "idle", status |-> "idle"]
    /\ hook = [w \in BOOLEAN |-> IdleHook]
    /\ worker = NoWorker
    /\ posted = << >>
    /\ sent = << >>
    /\ decoded = << >>
    /\ beforeSet = NoSnapshot
    /\ InitTimers
    /\ clearedAt = "none"

NextPaths ==
    \/ \E w \in BOOLEAN : HookParseFile(w)
    \/ WorkerLoad
    \/ ArrayBufferRead
    \/ WorkerHandle
    \/ OnMessage
    \/ OnError
    \/ ParseWithoutWorker

SpecPaths == InitPaths /\ [][NextPaths]_vars

StageOrder(stage) ==
    CASE stage = "reading" -> 1 [] stage = "parsing" -> 2
      [] stage = "processing" -> 3 [] stage = "complete" -> 4 [] OTHER -> 0

\* C12: the progress events the worker posts for a parse request go through
\* reading, parsing, processing, complete in non-decreasing order, with
\* percents non-decreasing and within 0..100, and every result message comes
\* after a progress event of stage complete.
C12_StagedProgress ==
    /\ \A i, j \in DOMAIN sent :
          (i < j /\ sent[i].type = "progress" /\ sent[j].type = "progress") =>
              /\ StageOrder(sent[i].stage) >= 1
              /\ StageOrder(sent[i].stage) <= StageOrder(sent[j].stage)
              /\ sent[i].progress <= sent[j].progress
    /\ \A i \in DOMAIN sent :
          sent[i].type = "progress" => sent[i].progress \in 0..100
    /\ \A j \in DOMAIN sent :
          sent[j].type = "result" =>
              \E i \in 1..(j - 1) : sent[i].type = "progress" /\ sent[i].stage = "complete"

Stages(events) == [i \in DOMAIN events |-> events[i].stage]

\* C13: once both ways of parseFile have settled on the same file, onProgress
\* has been given the same sequence of stages and the promise has the same
\* kind of outcome (resolved with a result, or rejected).
C13_PathsEquivalent ==
    (hook[TRUE].pc = "settled" /\ hook[FALSE].pc = "settled") =>
        /\ Stages(hook[TRUE].delivered) = Stages(hook[FALSE].delivered)
        /\ hook[TRUE].outcome = hook[FALSE].outcome

XlsxMime ==
    <<"a","p","p","l","i","c","a","t","i","o","n","/","v","n","d",".","o","p","e","n","x","m","l","f","o","r","m","a","t","s","-","o","f","f","i","c","e","d","o","c","u","m","e","n","t",".","s","p","r","e","a","d","s","h","e","e","t","m","l",".","s","h","e","e","t">>
XlsMime ==
    <<"a","p","p","l","i","c","a","t","i","o","n","/","v","n","d",".","m","s","-","e","x","c","e","l">>

\* validTypes, validExtensions
validTypes == {XlsxMime, XlsMime, CsvMime}
validExtensions == {<<".">> \o XlsxText, <<".">> \o XlsText, <<".">> \o CsvText}

\* file.name.substring(file.name.lastIndexOf('.')).toLowerCase(): the whole
\* name when it has no dot (substring(-1) is substring(0))
UploadExtension(name) ==
    LET dot == LastIndexOf(name, ".")
    IN ToLowerCase(IF dot = 0 THEN name ELSE Drop(name, dot - 1))

isValidType(f) == f.type \in validTypes \/ UploadExtension(f.name) \in validExtensions

\* the catch and finally clauses of processFile: setError(message),
\* setUploadProgress({ status: 'error' }), setLoading(false)
UploadFailed(message) ==
    /\ error' = message
    /\ isLoading' = FALSE
    /\ upload' = [pc |-> "done", status |-> "error"]

\* processFile(file) up to await parseFile(file)
ProcessFile ==
    /\ upload.pc = "idle"
    /\ IF ~isValidType(file)
       THEN /\ UploadFailed("Formato de arquivo não suportado. Use .xlsx, .xls ou .csv")
            /\ UNCHANGED <<hook, worker>>
       ELSE IF file.size > MaxFileSize
       THEN /\ UploadFailed("Arquivo muito grande. Máximo: 50MB")
            /\ UNCHANGED <<hook, worker>>
       ELSE /\ isLoading' = TRUE
            /\ upload' = [pc |-> "awaiting", status |-> "processing"]
            /\ UNCHANGED error
            /\ hookParseFile(isWorkerSupported)
    /\ UNCHANGED <<data, tableState, isEditMode, editingCell, lastAdded, queryVars, parserVars,
                   timerVars, clearedAt, file, isWorkerSupported, beforeSet, posted, sent, decoded>>

\* processFile from the settling of parseFile(file) on
ProcessFileResume ==
    /\ upload.pc = "awaiting"
    /\ hook[isWorkerSupported].pc = "settled"
    /\ LET h == hook[isWorkerSupported]
       IN IF h.outcome = "rejected"
          THEN /\ UploadFailed(h.message)
               /\ UNCHANGED <<data, tableState, isEditMode, editingCell, lastAdded, parserVars>>
          ELSE IF Len(h.result.headers) = 0
          THEN /\ UploadFailed("Não foi possível ler os dados do arquivo")
               /\ UNCHANGED <<data, tableState, isEditMode, editingCell, lastAdded, parserVars>>
          ELSE /\ parseInput' = [headers |-> h.result.headers, data |-> h.result.data,
                                 errors |-> h.result.errors]
               /\ \E ids \in GeneratedIds(Len(h.result.data)) :
                     /\ processed' = processData(h.result, NoSchema, ids)
                     /\ setDataFields(processData(h.result, NoSchema, ids))
               /\ isLoading' = FALSE
               /\ upload' = [pc |-> "done", status |-> "success"]
               /\ UNCHANGED <<schemaInput, column, inferred>>
    /\ UNCHANGED <<queryVars, timerVars, clearedAt, file, isWorkerSupported, beforeSet, hook, worker, posted, sent, decoded>>

UploadFiles ==
    {FileOf(n, t, 1024, c) : n \in FileNames, t \in FileTypes,
                             c \in SheetContents \cup TextContents \cup UnreadableContents}
    \cup {FileOf(<<"d",".","x","l","s","x">>, t, MaxFileSize + 1, c) :
             t \in {<< >>, XlsxMime, XlsMime}, c \in SheetContents}
    \cup {FileOf(<<"d","a","t","a">>, XlsMime, 1024, c) : c \in SheetContents}

InitUpload ==
    /\ InitStore
    /\ result = [rows |-> << >>, totalFiltered |-> 0]
    /\ calls = 0
    /\ acc = << >>
    /\ parseInput = [headers |-> << >>, data |-> << >>, errors |-> << >>]
    /\ schemaInput = NoSchema
    /\ processed = NullData
    /\ column = << >>
    /\ inferred = ""
    /\ file \in UploadFiles
    /\ isWorkerSupported \in BOOLEAN
    /\ upload = [pc |-> "idle", status |-> "idle"]
    /\ hook = [w \in BOOLEAN |-> IdleHook]
    /\ worker = NoWorker
    /\ posted = << >>
    /\ sent = << >>
    /\ decoded = << >>
    /\ beforeSet = NoSnapshot
    /\ InitTimers
    /\ clearedAt = "none"

NextUpload ==
    \/ ProcessFile
    \/ WorkerLoad
    \/ ArrayBufferRead
    \/ WorkerHandle
    \/ OnMessage
    \/ ParseWithoutWorker
    \/ ProcessFileResume

SpecUpload == InitUpload /\ [][NextUpload]_vars

\* the first worksheet has no header cells, or a header row and no data rows
EmptyInput(f) ==
    /\ hookDetectFileType(f.name) \in {"xlsx", "xls"}
    /\ ~f.unreadable /\ ~f.throws
    /\ f.size <= MaxFileSize
    /\ \/ Len(f.raw) = 0
       \/ Len(f.raw[1]) = 0
       \/ Len(f.raw) = 1

\* C15: when processFile has finished on a spreadsheet with zero header
\* cells, or with a header row and zero data rows, the decode result's errors
\* hold an error string and the store holds a dataset of zero rows, with no
\* error set.
C15_EmptyInputStored ==
    (upload.pc = "done" /\ EmptyInput(file)) =>
        /\ hook[isWorkerSupported].outcome = "resolved"
        /\ Len(hook[isWorkerSupported].result.errors) > 0
        /\ ~data.isNull
        /\ Len(data.rows) = 0
        /\ error = ""


(***************************************************************************)
(* A session of view changes and edits on a loaded dataset, then re-uploads *)
(***************************************************************************)
\* set({ isLoading })
setLoading(loading) ==
    /\ isLoading' = loading
    /\ UNCHANGED <<data, tableState, error, isEditMode, editingCell, lastAdded, queryVars,
                   parserVars, uploadVars, timerVars, clearedAt>>

\* set({ error, isLoading: false })
setError(message) ==
    /\ error' = message
    /\ isLoading' = FALSE
    /\ UNCHANGED <<data, tableState, isEditMode, editingCell, lastAdded, queryVars,
                   parserVars, uploadVars, timerVars, clearedAt>>

\* set({ isEditMode, editingCell: null })
setEditMode(enabled) ==
    /\ isEditMode' = enabled
    /\ editingCell' = NoCell
    /\ UNCHANGED <<data, tableState, isLoading, error, lastAdded, queryVars, parserVars,
                   uploadVars, timerVars, clearedAt>>

\* set({ editingCell })
setEditingCell(cell) ==
    /\ editingCell' = cell
    /\ UNCHANGED <<data, tableState, isLoading, error, isEditMode, lastAdded, queryVars,
                   parserVars, uploadVars, timerVars, clearedAt>>

ReloadErrors == {"", "Arquivo muito grande. Máximo: 50MB"}
ReloadCells == {NoCell, [set |-> TRUE, rowId |-> 1, columnKey |-> "name"]}

\* datasets with every column shown and no default sort, and datasets with a
\* hidden column and a default sort
ReloadDatasets ==
    {Dataset(StoreSchemaColumns, r) : r \in RowSeqsOf(StoreCells, 1)}
    \cup {[isNull |-> FALSE,
           schema |-> [columns |-> <<Column("name", "string", TRUE),
                                     [Column("value", "number", FALSE) EXCEPT !.hidden = TRUE]>>,
                       defaultSort |-> Sort("name", "desc")],
           rows |-> r,
           metadata |-> Metadata(Len(r), << >>)] : r \in RowSeqsOf(StoreCells, 1)}
    \cup {NullData}

\* the store after a first upload of two rows
InitReload ==
    /\ InitIdle
    /\ data = Dataset(StoreSchemaColumns,
                      <<Row(1, Str(<<"A","l">>), Num(1)), Row(2, Null, Null)>>)
    /\ tableState = [defaultTableState EXCEPT
                        !.visibleColumns = <<"name", "value">>,
                        !.pagination.totalItems = 2]
    /\ isLoading = FALSE
    /\ error = ""
    /\ isEditMode = FALSE
    /\ editingCell = NoCell
    /\ lastAdded = NoneAdded

\* a re-upload: FileUpload calls setData with the new dataset
Reload ==
    \E d \in ReloadDatasets :
        /\ setData(d)
        /\ beforeSet' = [set |-> TRUE, tableState |-> tableState, error |-> error,
                         isEditMode |-> isEditMode, editingCell |-> editingCell]
        /\ UNCHANGED <<queryVars, parserVars, timerVars, clearedAt, file, isWorkerSupported, upload, hook, worker,
                       posted, sent, decoded>>

SetLoading == ~beforeSet.set /\ \E loading \in BOOLEAN : setLoading(loading)
SetError == ~beforeSet.set /\ \E message \in ReloadErrors : setError(message)
SetEditMode == ~beforeSet.set /\ \E enabled \in BOOLEAN : setEditMode(enabled)
SetEditingCell == ~beforeSet.set /\ \E cell \in ReloadCells : setEditingCell(cell)

\* the view changes come before the first re-upload
NextReload ==
    \/ Reload
    \/ SetLoading
    \/ SetError
    \/ SetEditMode
    \/ SetEditingCell
    \/ ~beforeSet.set /\ SetSort
    \/ ~beforeSet.set /\ AddFilter
    \/ ~beforeSet.set /\ SetSearch
    \/ ~beforeSet.set /\ SetPage
    \/ ~beforeSet.set /\ SetPageSize

SpecReload == InitReload /\ [][NextReload]_vars

\* C16: a call of setData(d) stores d and leaves no filter, an empty search,
\* page 1, page size 25, no error, edit mode off and no cell in edit,
\* whatever they were before; for a dataset d the sort is the default sort of
\* d's schema and the visible columns are the keys of d's columns that are
\* not hidden, in the order of the schema.
C16_SetDataResets ==
    [][\A d \in ReloadDatasets :
          setData(d) =>
              /\ data' = d
              /\ tableState'.filters = << >>
              /\ tableState'.search = << >>
              /\ tableState'.pagination.page = 1
              /\ tableState'.pagination.pageSize = 25
              /\ error' = ""
              /\ isEditMode' = FALSE
              /\ editingCell' = NoCell
              /\ ~d.isNull =>
                    /\ tableState'.sort = d.schema.defaultSort
                    /\ LET cols == d.schema.columns
                           shown == {i \in DOMAIN cols : ~cols[i].hidden}
                           vis == tableState'.visibleColumns
                       IN /\ Len(vis) = Cardinality(shown)
                          /\ \A i \in DOMAIN vis :
                                \E j \in shown :
                                   /\ vis[i] = cols[j].key
                                   /\ Cardinality({l \in shown : l <= j}) = i]_vars

\* a re-upload of a dataset with a hidden column and a default sort found
\* two filters, a search text, page 2 of size 1, an error, edit mode on and a
\* cell in edit, and left none of them
C16_Witness ==
    /\ beforeSet.set
    /\ Len(beforeSet.tableState.filters) = 2
    /\ beforeSet.tableState.search # << >>
    /\ beforeSet.tableState.pagination.page = 2
    /\ beforeSet.tableState.pagination.pageSize = 1
    /\ beforeSet.tableState.sort.active
    /\ beforeSet.error # ""
    /\ beforeSet.isEditMode
    /\ beforeSet.editingCell.set
    /\ ~data.isNull /\ Len(data.rows) = 1
    /\ data.schema.defaultSort.active
    /\ tableState.visibleColumns = <<"name">>
    /\ tableState.filters = << >>
    /\ tableState.search = << >>
    /\ tableState.pagination.page = 1
    /\ error = ""
    /\ ~isEditMode
    /\ ~editingCell.set


(***************************************************************************)
(* Inline edits: updateCell on a loaded dataset and on no dataset.  Row    *)
(* ids are written as the strings generateId makes, row indexes as numbers *)
(***************************************************************************)
EditRow(id, index, nm, vl) ==
    [id |-> Str(id), rowIndex |-> Num(index), cells |-> [name |-> nm, value |-> vl]]

EditDataset ==
    [isNull |-> FALSE,
     schema |-> [columns |-> StoreSchemaColumns, defaultSort |-> Sort("name", "desc")],
     rows |-> <<EditRow(<<"r","1">>, 0, Str(<<"A">>), Num(1)),
                EditRow(<<"r","2">>, 1, Str(<<"B">>), Num(2))>>,
     metadata |-> Metadata(2, <<"Too few fields">>)]

\* the ids of the two rows and an id no row has
EditRowIds == {Str(<<"r","1">>), Str(<<"r","2">>), Str(<<"r","9">>)}
\* a column of the schema, the row's own properties, a key of no column
EditKeys == {"name", "_id", "_rowIndex", "extra"}
EditValues == {Str(<<"Z">>), Num(5)}

InitEdit ==
    /\ InitIdle
    /\ data \in {NullData, EditDataset}
    /\ tableState = [defaultTableState EXCEPT
                        !.visibleColumns = VisibleKeys(data),
                        !.sort = data.schema.defaultSort,
                        !.pagination.totalItems = RowCount(data)]
    /\ isLoading = FALSE
    /\ error = ""
    /\ isEditMode = TRUE
    /\ editingCell = NoCell
    /\ lastAdded = NoneAdded

EditCell ==
    \E rowId \in EditRowIds, columnKey \in EditKeys, value \in EditValues :
        updateCell(rowId, columnKey, value)

SpecEdit == InitEdit /\ [][EditCell]_vars

\* row[k] of the row object: _id, _rowIndex or a cell
Property(row, k) ==
    IF k = "_id" THEN row.id
    ELSE IF k = "_rowIndex" THEN row.rowIndex
    ELSE Cell(row.cells, k)

PropertyKeys(row) == {"_id", "_rowIndex"} \cup DOMAIN row.cells

\* C17: a call updateCell(rowId, columnKey, value) leaves the table state,
\* the schema, the metadata, the number and order of the rows and every row
\* whose id is not rowId as they were; in a row whose id is rowId it sets
\* the property columnKey to value and changes no other property; with no
\* row of that id, or with no dataset loaded, the dataset is unchanged.
C17_UpdateCellFrame ==
    [][\A rowId \in EditRowIds, columnKey \in EditKeys, value \in EditValues :
          updateCell(rowId, columnKey, value) =>
              /\ tableState' = tableState
              /\ data.isNull => data' = data
              /\ ~data.isNull =>
                    /\ ~data'.isNull
                    /\ data'.schema = data.schema
                    /\ data'.metadata = data.metadata
                    /\ Len(data'.rows) = Len(data.rows)
                    /\ \A i \in DOMAIN data.rows :
                          IF data.rows[i].id # rowId
                          THEN data'.rows[i] = data.rows[i]
                          ELSE /\ Property(data'.rows[i], columnKey) = value
                               /\ \A k \in (PropertyKeys(data.rows[i])
                                            \cup PropertyKeys(data'.rows[i])) \ {columnKey} :
                                     Property(data'.rows[i], k) = Property(data.rows[i], k)
                    /\ (\A i \in DOMAIN data.rows : data.rows[i].id # rowId) => data' = data]_vars

\* the second row's name has been edited and nothing else has changed
C17_Witness ==
    /\ ~data.isNull
    /\ data.rows[2].cells["name"] = Str(<<"Z">>)
    /\ data.rows[2].cells["value"] = Num(2)
    /\ data.rows[2].id = Str(<<"r","2">>)
    /\ data.rows[1] = EditDataset.rows[1]
    /\ data.schema = EditDataset.schema
    /\ data.metadata = EditDataset.metadata
    /\ tableState.sort = Sort("name", "desc")


\* C18: the rows of the ProcessedData that processData returns have pairwise
\* distinct _id values, whatever the clock and Math.random give and whatever
\* the headers of the sheet are.
C18_RowIdsUnique ==
    ~processed.isNull =>
        \A i, j \in DOMAIN processed.rows :
            i # j => processed.rows[i].id # processed.rows[j].id


(***************************************************************************)
(* processData on one column of raw values, under a supplied schema that   *)
(* gives the column its type, or under the generated schema                *)
(***************************************************************************)
MaxNormalizeRows == 1
ValueKey == <<"v">>

\* raw cells: texts with a decimal comma, a currency prefix, a percent sign,
\* a decimal point; texts that are no number; a date text; native numbers,
\* a boolean, a valid and an invalid Date, null
NormalizeValues ==
    {Str(<<"1","0",",","5","0">>),
     Str(RealText \o <<"1","0",",","5","0">>),
     Str(<<"2","5","%">>),
     Str(<<"1",".","5">>),
     Str(<<"a","b","c">>),
     Str(<<"n","o","t","-","a","-","d","a","t","e">>),
     Str(<<"2","0","2","4","-","0","1","-","1","5">>),
     Num(20),
     Decimal(105, 1),
     Bool(TRUE),
     DateValue(0, TRUE),
     DateValue(0, FALSE),
     Null}

SuppliedSchemas ==
    {[isNull |-> FALSE, columns |-> <<ColumnOfType(ValueKey, type)>>, defaultSort |-> NoSort] :
        type \in ColumnTypes}

InitNormalize ==
    /\ InitStore
    /\ result = [rows |-> << >>, totalFiltered |-> 0]
    /\ calls = 0
    /\ acc = << >>
    /\ InitUploadIdle
    /\ parseInput \in {[headers |-> <<ValueKey>>, data |-> rows, errors |-> << >>] :
                         rows \in UNION {[1..k -> {[h \in {ValueKey} |-> v] : v \in NormalizeValues}] :
                                           k \in 1..MaxNormalizeRows}}
    /\ schemaInput \in SuppliedSchemas \cup {NoSchema}
    /\ processed = NullData
    /\ column = << >>
    /\ inferred = ""

SpecNormalize == InitNormalize /\ [][ProcessData]_vars

NumericFamily == {"number", "currency", "percentage", "progress"}

\* the number the claim gives a raw value: currency symbols, '%' and white
\* space stripped, the comma turned into a dot, the rest parsed as a float;
\* null when that is no number
ClaimedNumber(value) ==
    LET text == ReplaceFirst(RemoveChars(JsString(value), CurrencySymbols \cup {"R", "%", " "}),
                             ",", ".")
    IN IF ParseFloat(text).nan THEN Null ELSE ParseFloat(text).value

\* C19: under a column of type number, currency, percentage or progress,
\* processData normalises a raw value to the number obtained by stripping
\* currency symbols, '%' and white space, reading a comma as the decimal
\* separator and parsing the rest ('10,50' and 'R$ 10,50' give 10.5), and to
\* null when that does not parse.
C19_NumericNormalization ==
    ~processed.isNull =>
        \A c \in DOMAIN processed.schema.columns, i \in DOMAIN processed.rows :
            processed.schema.columns[c].type \in NumericFamily =>
                LET key == processed.schema.columns[c].key
                    raw == Cell(parseInput.data[i], key)
                IN ~IsNullish(raw) => processed.rows[i].cells[key] = ClaimedNumber(raw)

\* C20: in the ProcessedData processData returns, every cell of a column of
\* a numeric type is a number or null, and every cell of a date or datetime
\* column is a valid date or null.
C20_CellsValidOrNull ==
    ~processed.isNull =>
        \A c \in DOMAIN processed.schema.columns, i \in DOMAIN processed.rows :
            LET type == processed.schema.columns[c].type
                cell == processed.rows[i].cells[processed.schema.columns[c].key]
            IN /\ type \in NumericFamily => cell.t \in {"num", "null"}
               /\ type \in {"date", "datetime"} => cell.t = "null" \/ (cell.t = "date" /\ cell.b)


\* C21: from any store state, addFilter, setSearch and setPageSize each set
\* the page to 1 and leave the dataset, the sort and the visible columns as
\* they were; setPageSize also sets totalPages to the row count divided by
\* the new page size, rounded up.
C21_ViewChangesResetPage ==
    [][/\ \A filter \in StoreFilters :
             addFilter(filter) =>
                 /\ tableState'.pagination.page = 1
                 /\ data' = data
                 /\ tableState'.sort = tableState.sort
                 /\ tableState'.visibleColumns = tableState.visibleColumns
       /\ \A search \in StoreSearches :
             setSearch(search) =>
                 /\ tableState'.pagination.page = 1
                 /\ data' = data
                 /\ tableState'.sort = tableState.sort
                 /\ tableState'.visibleColumns = tableState.visibleColumns
       /\ \A pageSize \in StorePageSizes :
             setPageSize(pageSize) =>
                 /\ tableState'.pagination.page = 1
                 /\ tableState'.pagination.totalPages =
                       (IF data.isNull THEN 0 ELSE (Len(data.rows) + pageSize - 1) \div pageSize)
                 /\ data' = data
                 /\ tableState'.sort = tableState.sort
                 /\ tableState'.visibleColumns = tableState.visibleColumns]_vars

\* on a dataset of two rows with a sort set, a filter has been added, a
\* search text set and the page size set to 1: the page is 1 of 2
C21_Witness ==
    /\ ~data.isNull /\ Len(data.rows) = 2
    /\ tableState.sort.active
    /\ tableState.visibleColumns = <<"name", "value">>
    /\ \E k \in Keys : lastAdded[k].filter # NoFilter
    /\ tableState.filters # << >>
    /\ tableState.search # << >>
    /\ tableState.pagination.pageSize = 1
    /\ tableState.pagination.totalPages = 2
    /\ tableState.pagination.page = 1


(***************************************************************************)
(* debounce(func, wait) (lib/useKeyboardShortcuts): calls of the returned  *)
(* function, the timer firing, the clock advancing.  A timer fires when it *)
(* is due: the clock does not pass a due timer.                            *)
(***************************************************************************)
MaxTime == 6
MaxRequests == 3
DebounceWait == 2
DebounceArgs == {"a", "b"}

Scheduled_KeepsDue(args) ==
    [set |-> TRUE, pending |-> TRUE,
     due |-> IF timeout.pending THEN timeout.due ELSE clock + DebounceWait, args |-> args]

\* timeout = setTimeout(() => func(...args), wait), after clearTimeout(timeout)
Scheduled(args) ==
    [set |-> TRUE, pending |-> TRUE, due |-> clock + DebounceWait, args |-> args]

\* a call of the function debounce returned
CallDebounced ==
    /\ Len(requested) < MaxRequests
    /\ \E args \in DebounceArgs :
          /\ timeout' = Scheduled(args)
          /\ requested' = Append(requested, [time |-> clock, args |-> args])
    /\ UNCHANGED <<storeVars, queryVars, parserVars, uploadVars, clearedAt, clock, invoked>>

\* the timer fires: func(...args); after counts the calls made so far
TimerFires ==
    /\ timeout.pending
    /\ timeout.due <= clock
    /\ timeout' = [timeout EXCEPT !.pending = FALSE]
    /\ invoked' = Append(invoked, [time |-> clock, args |-> timeout.args,
                                   after |-> Len(requested)])
    /\ UNCHANGED <<storeVars, queryVars, parserVars, uploadVars, clearedAt, clock, requested>>

\* a millisecond passes
Tick ==
    /\ clock < MaxTime
    /\ ~(timeout.pending /\ timeout.due <= clock)
    /\ clock' = clock + 1
    /\ UNCHANGED <<storeVars, queryVars, parserVars, uploadVars, clearedAt, timeout, requested, invoked>>

InitDebounce == InitStore /\ InitIdle

NextDebounce == CallDebounced \/ TimerFires \/ Tick

SpecDebounce == InitDebounce /\ [][NextDebounce]_vars

\* the last call of a burst: no call follows it within the wait
EndsBurst(i) ==
    /\ i \in DOMAIN requested
    /\ i < Len(requested) => requested[i + 1].time >= requested[i].time + DebounceWait

\* C22: the wrapped function is invoked only by the timer, wait after a call
\* that no other call followed in the meantime and with the arguments of
\* that call, at most once for a call and never at the time of a call made
\* before it; and once wait has passed since the
\* last call of a burst it has been invoked for that call.
C22_DebounceCollapsesBursts ==
    /\ \A j \in DOMAIN invoked :
          /\ invoked[j].after \in DOMAIN requested
          /\ EndsBurst(invoked[j].after)
          /\ invoked[j].time = requested[invoked[j].after].time + DebounceWait
          /\ invoked[j].args = requested[invoked[j].after].args
          /\ \A k \in DOMAIN invoked : k # j => invoked[k].after # invoked[j].after
    /\ \A i \in DOMAIN requested :
          (requested[i].time + DebounceWait < clock
           /\ (i < Len(requested) => requested[i + 1].time > requested[i].time + DebounceWait))
          => \E j \in DOMAIN invoked : invoked[j].after = i
    /\ \A i \in DOMAIN requested : \A j \in DOMAIN invoked :
          invoked[j].after >= i => invoked[j].time > requested[i].time

\* a burst of two calls one millisecond apart, then a single call: the
\* function has run twice, with the arguments of the second and third call
C22_Witness ==
    /\ Len(requested) = 3
    /\ requested[2].time = requested[1].time + 1
    /\ requested[1].args = "a" /\ requested[2].args = "b"
    /\ requested[3].time >= requested[2].time + DebounceWait
    /\ Len(invoked) = 2
    /\ invoked[1].args = "b" /\ invoked[1].after = 2
    /\ invoked[2].after = 3


\* C23: once the promise of parseWithWorker has settled, the worker created
\* for the parse has been terminated and workerRef cleared.
C23_SettledWorkerReleased ==
    hook[TRUE].pc = "settled" => (worker.state = "terminated" /\ ~worker.ref)


\* the sampled values are native numbers, all of them within [0, 100]
AllNativeInRange ==
    LET sample == NonNullValues(column)
    IN /\ sample # << >>
       /\ \A i \in DOMAIN sample :
             /\ sample[i].t = "num"
             /\ NumDiff(sample[i], Num(0)) >= 0 /\ NumDiff(sample[i], Num(100)) <= 0

\* the sampled values that are the number 0 or the number 1
ZeroOrOne ==
    LET sample == NonNullValues(column)
    IN Cardinality({i \in DOMAIN sample : sample[i] \in {Num(0), Num(1)}})

\* C24 as stated: a column whose sampled values are all native numbers
\* within [0, 100] is inferred as progress.
C24_AllInRangeIsProgress ==
    (inferred # "" /\ AllNativeInRange) => inferred = "progress"

\* C24, amended: 0 and 1 are tallied as boolean and to no other bucket; every
\* other native number within [0, 100] is tallied to both progress and number.
\* A column of native numbers within [0, 100] is inferred as boolean when at
\* least 70% of the sample is 0 or 1, as progress when at least 70% is
\* neither, as badge or string otherwise, and never as number.
C24_ProgressUnlessZeroOne ==
    (inferred # "" /\ AllNativeInRange) =>
        LET total == Len(NonNullValues(column))
        IN /\ Tally("boolean") = ZeroOrOne
           /\ Tally("progress") = total - ZeroOrOne
           /\ Tally("number") = Tally("progress")
           /\ inferred = (IF 10 * ZeroOrOne >= 7 * total THEN "boolean"
                          ELSE IF 10 * (total - ZeroOrOne) >= 7 * total THEN "progress"
                          ELSE IF DistinctCount <= 10 THEN "badge" ELSE "string")

\* 100, 50, 50 and a 1: three of four values count as progress and as number
C24_Witness ==
    /\ inferred = "progress"
    /\ AllNativeInRange
    /\ Len(column) = 4
    /\ ZeroOrOne = 1
    /\ Num(100) \in Range(column)


(***************************************************************************)
(* getFilteredData with one filter of a comparison or a string operator,   *)
(* on rows with null, absent, numeric and text cells                       *)
(***************************************************************************)
MaxOperatorRows == 2
CompareOperators == {"gt", "gte", "lt", "lte"}
StringOperators == {"contains", "startsWith", "endsWith"}

\* <<name, value>> of a row: null cells, absent cells, numbers, a text that is
\* a number, texts that are none
OperatorCells == {<<Null, Null>>, <<Undefined, Undefined>>,
                  <<Str(<<"A","l">>), Num(0)>>, <<Str(<<"n","u","l","l">>), Num(2)>>,
                  <<Str(<<"u","n">>), Str(<<"x">>)>>, <<Str(<<"d">>), Str(<<"3">>)>>}
OperatorFilters ==
    {Filter("value", op, v) : op \in CompareOperators,
                              v \in {Num(0), Num(1), Num(3), Str(<<"x">>), Null}}
    \cup {Filter("name", op, v) : op \in StringOperators,
                                  v \in {Str(<<"l">>), Str(<<"N","U","L","L">>), Str(<<"u","n">>),
                                         Str(<<"d">>), Str(<<"z">>)}}
OperatorDatasets == {Dataset(SearchableName, r) :
                       r \in RowSeqsOf(OperatorCells, MaxOperatorRows)}
OperatorStates == {QueryState(<< >>, <<f>>, NoSort, 1, DefaultPageSize) :
                     f \in OperatorFilters}
InitOperators == InitQuery(OperatorDatasets, OperatorStates)
SpecOperators == InitOperators /\ [][FilterCall]_vars

\* a op b, given d = a - b
Compares(op, d) ==
    CASE op = "gt" -> d > 0 [] op = "gte" -> d >= 0 [] op = "lt" -> d < 0 [] op = "lte" -> d <= 0

\* C25: under gt, gte, lt and lte against a numeric bound a null cell is
\* compared as 0 and a numeric text as its number; a cell that coerces to NaN
\* (an absent cell, a text that is no number) is dropped by all four, and so
\* is every row when the bound coerces to NaN.
C25_NumericCoercion ==
    (calls >= 1 /\ tableState.filters[1].operator \in CompareOperators) =>
        LET f == tableState.filters[1]
            kept == Range(result.rows)
        IN \A r \in Range(data.rows) :
              LET v == r.cells[f.column]
              IN /\ (v = Null /\ f.value.t = "num")
                       => (r \in kept <=> Compares(f.operator, 0 - f.value.n))
                 /\ (v = Str(<<"3">>) /\ f.value.t = "num")
                       => (r \in kept <=> Compares(f.operator, 3 - f.value.n))
                 /\ (v = Null /\ f.value = Null)
                       => (r \in kept <=> Compares(f.operator, 0))
                 /\ v \in {Undefined, Str(<<"x">>)} => r \notin kept
                 /\ f.value = Str(<<"x">>) => r \notin kept

\* value < 1 over a null cell and a text that is no number: the null row
\* stays, the text row goes
C25_Witness ==
    /\ calls >= 1
    /\ tableState.filters[1] = Filter("value", "lt", Num(1))
    /\ Len(data.rows) = 2
    /\ data.rows[1].cells.value = Null
    /\ data.rows[2].cells.value = Str(<<"x">>)
    /\ result.rows = <<data.rows[1]>>

\* C26: a filter with operator contains, startsWith or endsWith never keeps a
\* row whose cell in the filter column is null or undefined.
C26_StringFiltersDropNull ==
    (calls >= 1 /\ tableState.filters[1].operator \in StringOperators) =>
        \A r \in Range(result.rows) : ~IsNullish(r.cells[tableState.filters[1].column])


\* C27: once parseFile of the hook has settled, isLoading is false, with and
\* without Web Workers; isLoading is true only while a parse is in flight.
C27_LoadingEndsOnSettle ==
    \A w \in BOOLEAN :
        /\ hook[w].pc = "settled" => ~hook[w].isLoading
        /\ hook[w].isLoading => hook[w].pc \notin {"idle", "settled"}


(***************************************************************************)
(* An upload with the Ctrl+Delete shortcut of the page (clearData) pressed *)
(* at any moment of it                                                     *)
(***************************************************************************)
\* the shortcut's action: clearData of the store
ClearShortcut ==
    /\ clearDataFields
    /\ clearedAt' = upload.pc
    /\ UNCHANGED <<isLoading, queryVars, parserVars, uploadVars, timerVars>>

NextClear == NextUpload \/ ClearShortcut

SpecClear == InitUpload /\ [][NextClear]_vars

\* C28: once clearData has run while the parse of an upload was in flight,
\* store.data stays null: that upload never writes its dataset.
C28_ClearedStaysNull ==
    clearedAt = "awaiting" => data.isNull


\* C29: with a dataset loaded, pagination.totalItems is the number of rows of
\* the dataset and pagination.totalPages is ceil(rows / pageSize).
C29_PaginationTotals ==
    ~data.isNull =>
        /\ tableState.pagination.totalItems = Len(data.rows)
        /\ tableState.pagination.totalPages =
              (Len(data.rows) + tableState.pagination.pageSize - 1)
                  \div tableState.pagination.pageSize


\* C30: a cell is in edit only if edit mode is on and a dataset is loaded
\* that has a row whose _id is the rowId of the cell.
C30_EditingCellValid ==
    editingCell.set =>
        /\ isEditMode
        /\ ~data.isNull
        /\ \E i \in DOMAIN data.rows : data.rows[i].id = editingCell.rowId


====
